---- MODULE Spec2Model ----
(***************************************************************************)
(* A model of utils/escape.py: the Telegram MarkdownV2 escaping pipeline   *)
(* escape(text, flag), its helper replace_all / find_all_index (the        *)
(* selective span transform) and the final pass fix_uneven_backticks.      *)
(*                                                                         *)
(* A text is a sequence of characters; a character is a one-character      *)
(* string.  The two non-ASCII glyphs the code emits are written by their   *)
(* code points (Bullet, HeadGlyph), and so is the backtick (BQ), which a   *)
(* TLA+ string cannot hold.  Positions are 1-based in the matchers;        *)
(* find_all_index returns the 0-based offsets the code returns.            *)
(***************************************************************************)
EXTENDS Integers, Sequences, FiniteSets, TLC

VARIABLES
    input,      \* the text escape() was called with
    flag,       \* its flag argument
    text,       \* the local `text` of escape(), rewritten pass by pass
    pc,         \* the number of passes of escape() already executed
    raised,     \* TRUE once a pass has raised an exception
    call,       \* the arguments (pattern, function) of a replace_all call
    first,      \* what the first of two successive escape() calls returned
    stage,      \* where the caller of escape() stands (send_message)
    format,     \* send_message's format argument
    parse_mode, \* send_message's parse_mode argument
    queue,      \* the chunks the running send_wrap has still to send
    sent,       \* the reply_text calls Telegram accepted, in order
    stored_blocked,      \* the keys of /Blocked_user in Firebase (INFO_DB)
    blocked_users_cache, \* the members of the set DB.blocked_users_cache
    LIST_OF_BAN_IDS,     \* the members of the set decoders_.LIST_OF_BAN_IDS
    ban_shared,          \* DB.blocked_users_cache is LIST_OF_BAN_IDS
    stored_admins,       \* the keys of /Admin_users in Firebase (INFO_ADMIN)
    admins_users,        \* the members of the set DB.admins_users
    ADMIN_ID_LIST,       \* the members of the set decoders_.ADMIN_ID_LIST
    admin_shared,        \* DB.admins_users is ADMIN_ID_LIST
    blocked,    \* the users blocked by a block_user not undone by unblock_user
    granted,    \* the users made admin by an add_admin not undone by remove_admin
    handled,    \* the latest call of a wrapped handler and what became of it
    command_cooldowns,   \* the live keys of decoders_.command_cooldowns
    warned_users,        \* the live keys of decoders_.warned_users
    reported_users,      \* the live keys of decoders_.reported_users
    warnings,   \* per user, the warnings delivered since the user's entry in
                \* warned_users was last absent
    reports,    \* per user, the spam reports delivered since the user's entry
                \* in reported_users was last absent
    confirmation,        \* the state of the shutdown confirmation message
    confirmer,  \* who pressed "shutdown_confirm" last
    exited,     \* sys.exit(0) has been called
    media_pc,   \* where the running generate_text_via_media stands
    media_state,         \* media_file.state.name
    retries,    \* the local `retries` of generate_text_via_media
    fetched,    \* the genai.get_file calls made by the running call
    model_called,        \* chat_session.send_message was called with the file
    history_written,     \* DB.chat_history_add was called by the running call
    error_reported,      \* handle_error was called by the running call
    chat_sessions,       \* the history of every ChatSession made for the chat
    chat_histories,      \* which of them chat_histories holds for the chat
    stored_history,      \* the chat_session Firebase holds for the chat
    update_threads,      \* the update_history threads started and not ended
    db_lock,    \* who holds chat_handller.db_lock
    clear_pc,   \* where the running clear_history stands
    cleared,    \* a clear_history completed and no message was answered since
    processes,  \* the state of every subprocess a /shell command made
    running_processes,   \* the keys of terminal.running_processes
    shell_pc,   \* where the shell handler of every process_id stands
    offered,    \* the process ids a 'Kill Process' button was shown for
    kill_reply  \* what the latest process_kill_callback answered, per id

\* the variables of send_message other than message (input) and
\* formatted_message (text)
sendVars == <<stage, format, parse_mode, queue, sent>>

\* the caches of FireBaseDB, their aliases in decoders_, and the record of
\* the handler calls
accessVars ==
    <<stored_blocked, blocked_users_cache, LIST_OF_BAN_IDS, ban_shared,
      stored_admins, admins_users, ADMIN_ID_LIST, admin_shared,
      blocked, granted, handled>>
\* the caches of rate_limit
limitVars == <<command_cooldowns, warned_users, reported_users, warnings, reports>>
\* the shutdown dialogue
offVars == <<confirmation, confirmer, exited>>
\* generate_text_via_media
mediaVars ==
    <<media_pc, media_state, retries, fetched, model_called, history_written,
      error_reported>>
\* generate_response, its update_history threads and clear_history
historyVars ==
    <<chat_sessions, chat_histories, stored_history, update_threads, db_lock,
      clear_pc, cleared>>
\* the /shell commands
shellVars == <<processes, running_processes, shell_pc, offered, kill_reply>>
\* the chat and terminal handlers
appVars == <<mediaVars, historyVars, shellVars>>
\* the variables of the command handlers
botVars == <<accessVars, limitVars, offVars, appVars>>

\* the variables outside the call of escape() in progress
restVars == <<call, first, sendVars, botVars>>

vars == <<input, flag, text, pc, raised, restVars>>

-----------------------------------------------------------------------------
(* Characters *)

BS == "\\"
NL == "\n"
BQ == "U+0060"
Bullet == "U+2022"
HeadGlyph == "U+258E"

\* \s and \d, over the characters the inputs are made of
Whitespace == {" ", NL, "\t"}
Digits == {"0", "1", "2", "3", "4", "5", "6", "7", "8", "9"}

\* the placeholder sequences escape() inserts
SentOpenBracket == <<"@", "-", ">", "@">>
SentCloseBracket == <<"@", "<", "-", "@">>
SentOpenParen == <<"@", "-", "-", ">", "@">>
SentCloseParen == <<"@", "<", "-", "-", "@">>
SentBackquote == <<"@", "<", "@">>
SentTriple == <<"@", "@", "@">>
SentCaret == <<"^", "^", "^">>
SentMinus == <<"@", "+", ">", "@">>
SentFenceMinus == <<"@", "<", "+", "@">>
Fence == <<BQ, BQ, BQ>>

-----------------------------------------------------------------------------
(* Matching primitives *)

Is(s, p, set) == p >= 1 /\ p <= Len(s) /\ s[p] \in set

At(s, p, lit) ==
    /\ p >= 1
    /\ p + Len(lit) - 1 <= Len(s)
    /\ \A k \in 1..Len(lit) : s[p + k - 1] = lit[k]

Least(S) == CHOOSE j \in S : \A k \in S : j <= k

\* the first position >= p that holds no character of `set` (Len(s)+1 if none)
RunEnd(s, p, set) ==
    Least({j \in p..(Len(s) + 1) : ~Is(s, j, set)})

\* X{min,}?close read from `from`: the position of the nearest `close` that
\* leaves at least `min` characters before it; X is [\D\d\s] when dotall and
\* "." (anything but a newline) otherwise.  0 when there is none.
LazyClose(s, from, close, dotall, min) ==
    LET C == {j \in (from + min)..Len(s) :
                 /\ At(s, j, close)
                 /\ (dotall \/ \A k \in from..(j - 1) : s[k] # NL)}
    IN  IF C = {} THEN 0 ELSE Least(C)

\* ( .*? ) mid ( .*? ) close read from `from`: the position of the nearest `mid`
\* after which the rest of the pattern still matches.  0 when there is none.
LazyMid(s, from, mid, close) ==
    LET C == {j \in from..Len(s) :
                 /\ At(s, j, mid)
                 /\ \A k \in from..(j - 1) : s[k] # NL
                 /\ LazyClose(s, j + Len(mid), close, FALSE, 0) # 0}
    IN  IF C = {} THEN 0 ELSE Least(C)

-----------------------------------------------------------------------------
(* Patterns: the regular expressions of escape.py, by shape *)

\* a literal
Lit(l) == [kind |-> "lit", lit |-> l]
\* open ( X{min,}? ) close
Lazy(o, c, dotall, min) ==
    [kind |-> "lazy", open |-> o, close |-> c, dotall |-> dotall, min |-> min]
\* !? open ( .*? ) mid ( .*? ) close   (the leading !? only when bang)
Pair(bang, o, m, c) ==
    [kind |-> "pair", bang |-> bang, open |-> o, mid |-> m, close |-> c]
\* \n{1,2}\*\s
StarItem == [kind |-> "star_item"]
\* \n{1,2} ( \s* \d{1,2} \. \s )
NumberedItem == [kind |-> "numbered_item"]
\* \n{1,2} ( \s* ) - \s
DashItem == [kind |-> "dash_item"]
\* \n[\s]*-\s
DashMarker == [kind |-> "dash_marker"]
\* ^#+\s.+?\n+  under re.MULTILINE
HeaderLine == [kind |-> "header"]

\* ```[\D\d\s]+?```
FencedBlock == Lazy(Fence, Fence, TRUE, 1)
\* `[\D\d\s]*?`
InlineCode == Lazy(<<BQ>>, <<BQ>>, TRUE, 0)

\* the start of the match proper of a Pair pattern tried at p
PairOpen(pat, s, p) == IF pat.bang /\ At(s, p, <<"!">>) THEN p + 1 ELSE p

\* the number of newlines \n{1,2} takes at p
LeadNewlines(s, p) == IF At(s, p, <<NL, NL>>) THEN 2 ELSE 1

\* the end of \s*\d{1,2}\.\s read from p (exclusive), 0 when it does not match
NumberEnd(s, p) ==
    LET w == RunEnd(s, p, Whitespace)
    IN  IF ~Is(s, w, Digits) THEN 0
        ELSE IF Is(s, w + 1, Digits)
             THEN IF Is(s, w + 2, {"."}) /\ Is(s, w + 3, Whitespace)
                  THEN w + 4 ELSE 0
             ELSE IF Is(s, w + 1, {"."}) /\ Is(s, w + 2, Whitespace)
                  THEN w + 3 ELSE 0

\* the end of \s*-\s read from p (exclusive), 0 when it does not match
DashEnd(s, p) ==
    LET w == RunEnd(s, p, Whitespace)
    IN  IF Is(s, w, {"-"}) /\ Is(s, w + 1, Whitespace) THEN w + 2 ELSE 0

\* the first position >= p that holds a newline (Len(s)+1 if none)
LineEnd(s, p) ==
    Least({j \in p..(Len(s) + 1) : j > Len(s) \/ s[j] = NL})

\* the end of ^#+\s.+?\n+ tried at p (exclusive), 0 when it does not match
HeaderEnd(s, p) ==
    IF ~(p = 1 \/ Is(s, p - 1, {NL})) \/ ~Is(s, p, {"#"}) THEN 0
    ELSE LET h == RunEnd(s, p, {"#"})
             m == LineEnd(s, h + 1)
         IN  IF /\ Is(s, h, Whitespace)
                /\ m > h + 1
                /\ m <= Len(s)
             THEN RunEnd(s, m, {NL})
             ELSE 0

\* The end (exclusive) of the match of pat that starts at p, 0 when pat does
\* not match there.  No pattern of escape.py matches the empty string.
MatchEnd(pat, s, p) ==
    CASE pat.kind = "lit" ->
           IF At(s, p, pat.lit) THEN p + Len(pat.lit) ELSE 0
      [] pat.kind = "lazy" ->
           IF ~At(s, p, pat.open) THEN 0
           ELSE LET j == LazyClose(s, p + Len(pat.open), pat.close, pat.dotall, pat.min)
                IN  IF j = 0 THEN 0 ELSE j + Len(pat.close)
      [] pat.kind = "pair" ->
           LET q == PairOpen(pat, s, p)
           IN  IF ~At(s, q, pat.open) THEN 0
               ELSE LET j == LazyMid(s, q + Len(pat.open), pat.mid, pat.close)
                    IN  IF j = 0 THEN 0
                        ELSE LazyClose(s, j + Len(pat.mid), pat.close, FALSE, 0)
                                + Len(pat.close)
      [] pat.kind = "star_item" ->
           IF ~Is(s, p, {NL}) THEN 0
           ELSE LET q == p + LeadNewlines(s, p)
                IN  IF Is(s, q, {"*"}) /\ Is(s, q + 1, Whitespace) THEN q + 2 ELSE 0
      [] pat.kind = "numbered_item" ->
           IF ~Is(s, p, {NL}) THEN 0 ELSE NumberEnd(s, p + 1)
      [] pat.kind = "dash_item" ->
           IF ~Is(s, p, {NL}) THEN 0 ELSE DashEnd(s, p + 1)
      [] pat.kind = "dash_marker" ->
           IF ~Is(s, p, {NL}) THEN 0 ELSE DashEnd(s, p + 1)
      [] pat.kind = "header" -> HeaderEnd(s, p)

-----------------------------------------------------------------------------
(* re.sub *)

\* The text a match of pat over s[p..e-1] is replaced by, for the
\* replacement template rep of the call: group 1 (and 2) are cut out of the
\* match as the pattern places them.
Expand(pat, rep, s, p, e) ==
    CASE pat.kind = "lit" -> rep[1]
      [] pat.kind = "lazy" ->
           rep[1] \o SubSeq(s, p + Len(pat.open), e - Len(pat.close) - 1) \o rep[2]
      [] pat.kind = "pair" ->
           LET q == PairOpen(pat, s, p)
               j == LazyMid(s, q + Len(pat.open), pat.mid, pat.close)
           IN  rep[1] \o SubSeq(s, q + Len(pat.open), j - 1)
                 \o rep[2] \o SubSeq(s, j + Len(pat.mid), e - Len(pat.close) - 1)
                 \o rep[3]
      [] pat.kind = "star_item" -> rep[1]
      [] pat.kind = "numbered_item" ->
           rep[1] \o SubSeq(s, p + LeadNewlines(s, p), e - 1)
      [] pat.kind = "dash_item" ->
           rep[1] \o SubSeq(s, p + LeadNewlines(s, p), e - 3) \o rep[2]

RECURSIVE re_sub_from(_, _, _, _)
\* the scan at p, where the pattern matches up to e (0: no match at p)
re_sub_at(pat, rep, s, p, e) ==
    IF e = 0
    THEN <<s[p]>> \o re_sub_from(pat, rep, s, p + 1)
    ELSE Expand(pat, rep, s, p, e) \o re_sub_from(pat, rep, s, e)

re_sub_from(pat, rep, s, p) ==
    IF p > Len(s) THEN <<>> ELSE re_sub_at(pat, rep, s, p, MatchEnd(pat, s, p))

\* re.sub(pattern, repl, string): every leftmost non-overlapping match is
\* replaced; rep lists the literal pieces of the template around its groups
re_sub(pat, rep, s) == re_sub_from(pat, rep, s, 1)

\* re.sub of a literal by a literal
sub_lit(l, r, s) == re_sub(Lit(l), <<r>>, s)

-----------------------------------------------------------------------------
(* find_all_index and replace_all *)

\* The first alternative of the pattern (a sequence of arms tried in order)
\* that matches at p, 0 when none does.
FirstArm(arms, s, p) ==
    LET A == {a \in 1..Len(arms) : MatchEnd(arms[a], s, p) # 0}
    IN  IF A = {} THEN 0 ELSE Least(A)

RECURSIVE finditer(_, _, _, _)
\* the scan at p, where arm a matches up to e (a = 0: no match at p)
finditer_at(arms, cap, s, p, a, e) ==
    IF a = 0 THEN finditer(arms, cap, s, p + 1)
    ELSE <<[start |-> p - 1, end |-> e - 1, group1 |-> (a = cap)]>>
           \o finditer(arms, cap, s, e)

\* the end of the match of arm a at p
ArmEnd(arms, a, s, p) == IF a = 0 THEN 0 ELSE MatchEnd(arms[a], s, p)

\* re.finditer: the matches from p on, each with the arm that matched;
\* cap is the arm that is capture group 1
finditer_arm(arms, cap, s, p, a) ==
    finditer_at(arms, cap, s, p, a, ArmEnd(arms, a, s, p))

finditer(arms, cap, s, p) ==
    IF p > Len(s) THEN <<>>
    ELSE finditer_arm(arms, cap, s, p, FirstArm(arms, s, p))

RECURSIVE IndexPairs(_)
IndexPairs(matches) ==
    IF matches = <<>> THEN <<>>
    ELSE (IF Head(matches).group1
          THEN <<Head(matches).start, Head(matches).end>>
          ELSE <<>>) \o IndexPairs(Tail(matches))

find_all_index(s, arms, cap) ==
    <<0>> \o IndexPairs(finditer(arms, cap, s, 1)) \o <<Len(s)>>

\* list[i] of Python for i >= 0: IndexError outside the list
IndexError(list, i) == ~(0 <= i /\ i < Len(list))
PyItem(list, i) == IF IndexError(list, i) THEN 0 ELSE list[i + 1]
\* text[j:k]
Slice(s, j, k) == SubSeq(s, j + 1, k)

\* range(1, len(poslist), 2): the matched-item loop without its "- 1"
MatchedRangeOffByOne(n) == {i \in 1..(n - 1) : i % 2 = 1}

\* range(1, len(poslist) - 1, 2)
MatchedRange(n) == {i \in 1..(n - 2) : i % 2 = 1}
\* range(0, len(poslist), 2), kept when i + 1 < len(poslist)
PreservedRange(n) == {i \in 0..(n - 1) : i % 2 = 0 /\ i + 1 < n}

\* the elements of a finite set of integers in increasing order
RECURSIVE Ascending(_)
Ascending(S) ==
    IF S = {} THEN <<>> ELSE <<Least(S)>> \o Ascending(S \ {Least(S)})

RECURSIVE Interleave(_, _)
\* for orig, transformed in zip(preserved_parts, matched_parts)
Interleave(preserved, matched) ==
    IF preserved = <<>> \/ matched = <<>> THEN <<>>
    ELSE Head(preserved) \o Head(matched)
           \o Interleave(Tail(preserved), Tail(matched))

-----------------------------------------------------------------------------
(* The transform functions handed to replace_all *)

\* the first position >= p that holds a character of `set` (Len(s)+1 if none)
NextIn(s, p, set) ==
    Least({j \in p..(Len(s) + 1) : j > Len(s) \/ s[j] \in set})

RECURSIVE split_from(_, _)
\* str.split(): the maximal runs of non-whitespace characters from p on
split_from(s, p) ==
    LET a == RunEnd(s, p, Whitespace)
        b == NextIn(s, a, Whitespace)
    IN  IF a > Len(s) THEN <<>> ELSE <<SubSeq(s, a, b - 1)>> \o split_from(s, b)

RECURSIVE join(_, _)
\* sep.join(parts)
join(sep, parts) ==
    IF parts = <<>> THEN <<>>
    ELSE IF Len(parts) = 1 THEN Head(parts)
    ELSE Head(parts) \o sep \o join(sep, Tail(parts))

escapeshape(t) ==
    IF \A k \in 1..Len(t) : t[k] \in Whitespace THEN <<>>
    ELSE LET words == split_from(t, 1)
         IN  IF words # <<>> /\ At(words[1], 1, <<"#">>)
             THEN <<HeadGlyph, "*">> \o join(<<" ">>, Tail(words)) \o <<"*", NL, NL>>
             ELSE t

escape_special_char(t) == <<BS>> \o t

escape_minus(t) == <<BS>> \o t

escape_temp_minus(t) == SentMinus

escape_backquote(t) == <<BS, BQ, BS, BQ>>

escape_backquote_in_code(t) == SentOpenBracket

\* function(t) for the transform named `function`
Apply(function, t) ==
    CASE function = "escapeshape" -> escapeshape(t)
      [] function = "escape_special_char" -> escape_special_char(t)
      [] function = "escape_minus" -> escape_minus(t)
      [] function = "escape_temp_minus" -> escape_temp_minus(t)
      [] function = "escape_backquote" -> escape_backquote(t)
      [] function = "escape_backquote_in_code" -> escape_backquote_in_code(t)
      [] function = "lambda x: '\\' + x" -> <<BS>> \o t
      [] function = "identity" -> t

\* replace_all raises when it reads poslist outside its bounds
replace_all_raises(poslist) ==
    \/ \E i \in MatchedRange(Len(poslist)) :
          IndexError(poslist, i) \/ IndexError(poslist, i + 1)
    \/ \E i \in PreservedRange(Len(poslist)) :
          IndexError(poslist, i) \/ IndexError(poslist, i + 1)

\* matched_parts: function(text[start:end]) for the pairs at odd offsets
matched_parts(s, poslist, function) ==
    LET at == Ascending(MatchedRange(Len(poslist)))
    IN  [k \in 1..Len(at) |->
            Apply(function,
                  Slice(s, PyItem(poslist, at[k]), PyItem(poslist, at[k] + 1)))]

\* preserved_parts: text[j:k] for the pairs at even offsets
preserved_parts(s, poslist) ==
    LET at == Ascending(PreservedRange(Len(poslist)))
    IN  [k \in 1..Len(at) |->
            Slice(s, PyItem(poslist, at[k]), PyItem(poslist, at[k] + 1))]

\* replace_all without lines 49-52: the shorter list is not padded
NotPadded(parts, others) == parts

\* "Handle edge cases with different list lengths"
Padded(parts, others) ==
    IF Len(parts) < Len(others) THEN Append(parts, <<>>) ELSE parts

\* the result of replace_all once poslist is known
replace_all_parts(s, poslist, function) ==
    Interleave(
        Padded(preserved_parts(s, poslist), matched_parts(s, poslist, function)),
        Padded(matched_parts(s, poslist, function), preserved_parts(s, poslist)))

\* replace_all(text, pattern, function); `function` names the transform
replace_all(s, arms, cap, function) ==
    replace_all_parts(s, find_all_index(s, arms, cap), function)

-----------------------------------------------------------------------------
(* fix_uneven_backticks *)

RECURSIVE split_lines(_, _)
\* text.split('\n'), from p on
split_lines(s, p) ==
    LET m == LineEnd(s, p)
    IN  IF m > Len(s) THEN <<SubSeq(s, p, Len(s))>>
        ELSE <<SubSeq(s, p, m - 1)>> \o split_lines(s, m + 1)

\* line.strip().startswith('```')
StartsFence(line) == At(line, RunEnd(line, 1, Whitespace), Fence)

\* the number of occurrences of character c in s
Count(s, c) == Cardinality({k \in 1..Len(s) : s[k] = c})

\* the variant of UnevenBackticks with the parity the wrong way round
EvenBackticks(line) == Count(sub_lit(<<BS, BQ>>, <<>>, line), BQ) % 2 = 0
\* re.sub(r"\\`", '', line).count('`') % 2 != 0
UnevenBackticks(line) == Count(sub_lit(<<BS, BQ>>, <<>>, line), BQ) % 2 # 0

\* the pattern  \\` | (`)  of the repair
RepairArms == <<Lit(<<BS, BQ>>), Lit(<<BQ>>)>>

RECURSIVE fix_lines(_, _)
\* the variant of fix_line that forgets the in_code_block test
fix_line_everywhere(line, in_code_block) ==
    IF UnevenBackticks(line)
    THEN replace_all(line, RepairArms, 2, "lambda x: '\\' + x")
    ELSE line
\* the loop over the lines, with the in_code_block toggle
fix_line(line, in_code_block) ==
    IF ~in_code_block /\ UnevenBackticks(line)
    THEN replace_all(line, RepairArms, 2, "lambda x: '\\' + x")
    ELSE line

fix_lines(lines, in_code_block) ==
    IF lines = <<>> THEN <<>>
    ELSE IF StartsFence(Head(lines))
         THEN <<Head(lines)>> \o fix_lines(Tail(lines), ~in_code_block)
         ELSE <<fix_line(Head(lines), in_code_block)>>
                \o fix_lines(Tail(lines), in_code_block)

fix_uneven_backticks(t) == join(<<NL>>, fix_lines(split_lines(t, 1), FALSE))

LinesRaise(lines) ==
    \E k \in 1..Len(lines) :
        replace_all_raises(find_all_index(lines[k], RepairArms, 2))

fix_uneven_backticks_raises(t) == LinesRaise(split_lines(t, 1))

-----------------------------------------------------------------------------
(* The passes of escape(), in the order of the code *)

\* Save already escaped brackets and parentheses
SaveEscapedBrackets(t) ==
    sub_lit(<<BS, ")">>, SentCloseParen,
    sub_lit(<<BS, "(">>, SentOpenParen,
    sub_lit(<<BS, "]">>, SentCloseBracket,
    sub_lit(<<BS, "[">>, SentOpenBracket, t))))

\* Handle backslashes special case
SaveBackslashPairs(t, f) == IF f THEN sub_lit(<<BS, BS>>, SentTriple, t) ELSE t

\* Save escaped backticks
SaveEscapedBackticks(t) == sub_lit(<<BS, BQ>>, SentBackquote, t)

\* the variant of DoubleBackslashes that leaves the text alone
DoubleBackslashesOff(t) == t
\* Double all backslashes
DoubleBackslashes(t) == sub_lit(<<BS>>, <<BS, BS>>, t)

\* Restore special backslashes if needed
RestoreBackslashPairs(t, f) == IF f THEN sub_lit(SentTriple, <<BS, BS>>, t) ELSE t

\* Escape underscores
EscapeUnderscores(t) == sub_lit(<<"_">>, <<BS, "_">>, t)

\* Handle bold text:  \*{2} ( .*? ) \*{2}  ->  @@@\1@@@
SaveBold(t) ==
    re_sub(Lazy(<<"*", "*">>, <<"*", "*">>, FALSE, 0), <<SentTriple, SentTriple>>, t)

\* Convert bullet lists
ConvertBulletLists(t) == re_sub(StarItem, <<<<NL, NL, Bullet, " ">>>>, t)

\* Escape asterisks
EscapeAsterisks(t) == sub_lit(<<"*">>, <<BS, "*">>, t)

\* Restore bold text:  \@{3} ( .*? ) \@{3}  ->  *\1*
RestoreBold(t) ==
    re_sub(Lazy(SentTriple, SentTriple, FALSE, 0), <<<<"*">>, <<"*">>>>, t)

\* Handle links:  \!? \[ ( .*? ) \] \( ( .*? ) \)  ->  @@@\1@@@^^^\2^^^
SaveLinks(t) ==
    re_sub(Pair(TRUE, <<"[">>, <<"]", "(">>, <<")">>),
           <<SentTriple, SentTriple \o SentCaret, SentCaret>>, t)

\* Escape brackets and parentheses
EscapeBrackets(t) ==
    sub_lit(<<")">>, <<BS, ")">>,
    sub_lit(<<"(">>, <<BS, "(">>,
    sub_lit(<<"]">>, <<BS, "]">>,
    sub_lit(<<"[">>, <<BS, "[">>, t))))

\* Restore saved brackets and parentheses
RestoreEscapedBrackets(t) ==
    sub_lit(SentCloseParen, <<BS, ")">>,
    sub_lit(SentOpenParen, <<BS, "(">>,
    sub_lit(SentCloseBracket, <<BS, "]">>,
    sub_lit(SentOpenBracket, <<BS, "[">>, t))))

\* Restore links:  \@{3} ( .*? ) \@{3} \^{3} ( .*? ) \^{3}  ->  [\1](\2)
RestoreLinks(t) ==
    re_sub(Pair(FALSE, SentTriple, SentTriple \o SentCaret, SentCaret),
           <<<<"[">>, <<"]", "(">>, <<")">>>>, t)

\* Escape other special characters
EscapeTildeGreater(t) ==
    sub_lit(<<">">>, <<BS, ">">>, sub_lit(<<"~">>, <<BS, "~">>, t))

\* Format headers:  ( ^#+\s.+?\n+ ) | ```[\D\d\s]+?```
HeaderArms == <<HeaderLine, FencedBlock>>
FormatHeaders(t) == replace_all(t, HeaderArms, 1, "escapeshape")

\* Escape hash marks
EscapeHashes(t) == sub_lit(<<"#">>, <<BS, "#">>, t)

\* Handle plus and list items:
\*   ( \+ ) | \n[\s]*-\s | ```[\D\d\s]+?``` | `[\D\d\s]*?`
PlusArms == <<Lit(<<"+">>), DashMarker, FencedBlock, InlineCode>>
EscapePlus(t) == replace_all(t, PlusArms, 1, "escape_special_char")

\* Format numbered lists
FormatNumberedLists(t) == re_sub(NumberedItem, <<<<NL, NL>>>>, t)

\* Handle minus signs: first preserve those in code blocks
\*   ```[\D\d\s]+?``` | ( - )
TempMinusArms == <<FencedBlock, Lit(<<"-">>)>>
PreserveMinus(t) ==
    sub_lit(SentMinus, <<"-">>,
    sub_lit(<<"-">>, SentFenceMinus,
    replace_all(t, TempMinusArms, 2, "escape_temp_minus")))

\* Convert dash lists to bullet points
ConvertDashLists(t) == re_sub(DashItem, <<<<NL, NL>>, <<Bullet, " ">>>>, t)

\* Escape remaining minus signs:
\*   ( - ) | \n[\s]*-\s | ```[\D\d\s]+?``` | `[\D\d\s]*?`
MinusArms == <<Lit(<<"-">>), DashMarker, FencedBlock, InlineCode>>
RestoreFenceMinus(t) == sub_lit(SentFenceMinus, <<BS, "-">>, t)
EscapeMinus(t) == replace_all(RestoreFenceMinus(t), MinusArms, 1, "escape_minus")

\* Save code blocks for later restoration:  ``` ( [\D\d\s]+? ) ```  ->  @@@\1@@@
SaveCodeBlocks(t) == re_sub(FencedBlock, <<SentTriple, SentTriple>>, t)

\* Handle backticks in code blocks:  \@\@\@[\s\d\D]+?\@\@\@ | ( ` )
SavedBlock == Lazy(SentTriple, SentTriple, TRUE, 1)
BacktickArms == <<SavedBlock, Lit(<<BQ>>)>>
SaveBackticks(t) == replace_all(t, BacktickArms, 2, "escape_backquote_in_code")

\* Escape remaining backticks
EscapeBackticks(t) ==
    sub_lit(SentOpenBracket, <<BQ>>,
    sub_lit(SentBackquote, <<BS, BQ>>,
    sub_lit(<<BQ>>, <<BS, BQ>>, t)))

\* Handle double backticks:  ( `` )
DoubleArms == <<Lit(<<BQ, BQ>>)>>
EscapeDoubleBackticks(t) == replace_all(t, DoubleArms, 1, "escape_backquote")

\* Restore code blocks:  \@{3} ( [\D\d\s]+? ) \@{3}  ->  ```\1```
RestoreCodeBlocks(t) == re_sub(SavedBlock, <<Fence, Fence>>, t)

\* escape without lines 272-277
EscapePunctuationOff(t) == t

\* the last pass without its final line, the escape of "!"
EscapePunctuationNoBang(t) ==
    sub_lit(<<".">>, <<BS, ".">>,
    sub_lit(<<"}">>, <<BS, "}">>,
    sub_lit(<<"{">>, <<BS, "{">>,
    sub_lit(<<"|">>, <<BS, "|">>,
    sub_lit(<<"=">>, <<BS, "=">>, t)))))

\* Escape remaining special characters
EscapePunctuation(t) ==
    sub_lit(<<"!">>, <<BS, "!">>,
    sub_lit(<<".">>, <<BS, ".">>,
    sub_lit(<<"}">>, <<BS, "}">>,
    sub_lit(<<"{">>, <<BS, "{">>,
    sub_lit(<<"|">>, <<BS, "|">>,
    sub_lit(<<"=">>, <<BS, "=">>, t))))))

LastPass == 29

-----------------------------------------------------------------------------
(* The inputs escape() is called with *)

MaxLen == 3

RECURSIVE Concats(_, _)
\* the texts made of at most n pieces of Pieces
Concats(Pieces, n) ==
    IF n = 0 THEN {<<>>}
    ELSE LET shorter == Concats(Pieces, n - 1)
         IN  shorter \cup {s \o t : s \in shorter, t \in Pieces}

\* letters, digits, spaces and the two always-reserved characters
PlainPieces == {<<"a">>, <<"1">>, <<" ">>, <<".">>, <<"!">>}
\* fences, backticks and what a fence may hold
CodePieces == {<<"a">>, <<NL>>, <<BQ>>, Fence, <<"-">>, <<"_">>}
\* bold, links, brackets and backslashes
MarkPieces == {<<"a">>, <<"*", "*">>, <<"[">>, <<"]", "(">>, <<")">>,
               <<BS>>, <<BS, "[">>, <<".">>}
\* lines, list markers and headers
LinePieces == {<<"a">>, <<NL>>, <<"-", " ">>, <<"*", " ">>, <<"#", " ">>,
               <<"-">>, <<"1", ".", " ">>}

\* plus and minus signs in and around code
SignPieces == {<<"a">>, <<BQ>>, Fence, <<"+">>, <<NL, "+">>, <<NL, "-">>}

Families == {PlainPieces, CodePieces, MarkPieces, LinePieces, SignPieces}

\* the scenarios of the specification (section 8, A to D)
ScenarioA == <<"I", "n", "t", "r", "o", NL, "-", " ", "i", "t", "e", "m", "1",
               NL, "-", " ", "i", "t", "e", "m", "2">>
ScenarioB == <<"[", "O", "p", "e", "n", "A", "I", "]", "(", "h", "t", "t", "p",
               "s", ":", "/", "/", "o", "p", "e", "n", "a", "i", ".", "c", "o",
               "m", ")", ".">>
ScenarioC == <<"#", " ", "T", "i", "t", "l", "e", NL, "b", "o", "d", "y">>
ScenarioD == <<"W", "h", "a", "t", BQ, "s", " ", "u", "p">>
\* a fence that opens and closes on one line, then a line with one backtick
FenceThenBacktick == Fence \o <<"a">> \o Fence \o <<NL, "a", BQ, "b">>
\* a bare dash line directly before a list item
BareDashThenItem == <<"x", NL, "-", NL, "-", " ", "a">>

\* the characters of the last escaping pass, bare and in a fenced block
Punctuation == <<"=", "|", "{", "}", ".", "!">>
FencedPunctuation == Fence \o Punctuation \o Fence

\* a line holding only a number and its dot, directly before a numbered line
BareNumberThenItem == <<"x", NL, "1", ".", NL, "2", ".", " ", "a">>
\* a line numbered with three digits
ThreeDigits == <<"x", NL, "1", "2", "1", ".", " ", "a">>

Scenarios == {ScenarioA, ScenarioB, ScenarioC, ScenarioD,
              FenceThenBacktick, BareDashThenItem,
              Punctuation, FencedPunctuation,
              BareNumberThenItem, ThreeDigits}

Inputs == Scenarios \cup UNION {Concats(F, MaxLen) : F \in Families}

-----------------------------------------------------------------------------
(* escape() as a state machine: one step per pass *)

\* no replace_all call of its own is under study
NoCall == [arms |-> <<>>, cap |-> 0, function |-> "none"]
\* no earlier call of escape() has returned
None == <<"None">>
\* the users; the first is OWNER_ID
Owner == "owner"
Users == {Owner, "u1", "u2"}
\* no wrapped handler has been called
NotHandled == [by |-> "none", user |-> "none", executed |-> FALSE, allowed |-> FALSE]
\* the command handlers are not under study
NoAccess ==
    /\ stored_blocked = {} /\ blocked_users_cache = {}
    /\ LIST_OF_BAN_IDS = {} /\ ban_shared = TRUE
    /\ stored_admins = {} /\ admins_users = {}
    /\ ADMIN_ID_LIST = {} /\ admin_shared = TRUE
    /\ blocked = {} /\ granted = {}
    /\ handled = NotHandled
NoLimit ==
    /\ command_cooldowns = {} /\ warned_users = {} /\ reported_users = {}
    /\ warnings = [u \in Users |-> 0] /\ reports = [u \in Users |-> 0]
\* no confirmation message was posted
NoShutdown == confirmation = <<>> /\ confirmer = "nobody" /\ exited = FALSE
\* the process ids of the /shell commands
ProcessIds == {"p1", "p2"}
\* no media message is being answered
NoMedia ==
    /\ media_pc = "idle" /\ media_state = "NONE" /\ retries = 0 /\ fetched = 0
    /\ model_called = FALSE /\ history_written = FALSE
    /\ error_reported = FALSE
\* the update_history threads that can be alive together
ThreadIds == {"t1", "t2"}
\* no chat session was made
NoHistory ==
    /\ chat_sessions = <<>> /\ chat_histories = 0 /\ stored_history = 0
    /\ update_threads = [t \in ThreadIds |-> 0]
    /\ db_lock = "free" /\ clear_pc = "idle"
    /\ cleared = FALSE
\* no /shell command was given
NoShell ==
    /\ processes = [p \in ProcessIds |-> "none"]
    /\ running_processes = {}
    /\ shell_pc = [p \in ProcessIds |-> "idle"]
    /\ offered = {}
    /\ kill_reply = [p \in ProcessIds |-> "none"]
NoApp == NoMedia /\ NoHistory /\ NoShell
NoBot == NoAccess /\ NoLimit /\ NoShutdown /\ NoApp

\* escape() is called on its own, not from send_message
NoSend ==
    /\ stage = "escape"
    /\ format = TRUE
    /\ parse_mode = "MarkdownV2"
    /\ queue = <<>>
    /\ sent = <<>>

Init ==
    /\ input \in Inputs
    /\ flag \in BOOLEAN
    /\ text = input
    /\ pc = 0
    /\ raised = FALSE
    /\ call = NoCall
    /\ first = None
    /\ NoSend
    /\ NoBot

\* pass k runs on the current text and leaves `result`; when it raises, the
\* exception ends the call
Run(k, result, raises) ==
    /\ stage = "escape"
    /\ pc = k - 1
    /\ ~raised
    /\ IF raises
       THEN raised' = TRUE /\ UNCHANGED <<text, pc>>
       ELSE text' = result /\ pc' = k /\ UNCHANGED raised
    /\ UNCHANGED <<input, flag, restVars>>

DoSaveEscapedBrackets == Run(1, SaveEscapedBrackets(text), FALSE)
DoSaveBackslashPairs == Run(2, SaveBackslashPairs(text, flag), FALSE)
DoSaveEscapedBackticks == Run(3, SaveEscapedBackticks(text), FALSE)
DoDoubleBackslashes == Run(4, DoubleBackslashes(text), FALSE)
DoRestoreBackslashPairs == Run(5, RestoreBackslashPairs(text, flag), FALSE)
DoEscapeUnderscores == Run(6, EscapeUnderscores(text), FALSE)
DoSaveBold == Run(7, SaveBold(text), FALSE)
DoConvertBulletLists == Run(8, ConvertBulletLists(text), FALSE)
DoEscapeAsterisks == Run(9, EscapeAsterisks(text), FALSE)
DoRestoreBold == Run(10, RestoreBold(text), FALSE)
DoSaveLinks == Run(11, SaveLinks(text), FALSE)
DoEscapeBrackets == Run(12, EscapeBrackets(text), FALSE)
DoRestoreEscapedBrackets == Run(13, RestoreEscapedBrackets(text), FALSE)
DoRestoreLinks == Run(14, RestoreLinks(text), FALSE)
DoEscapeTildeGreater == Run(15, EscapeTildeGreater(text), FALSE)
DoFormatHeaders ==
    Run(16, FormatHeaders(text),
        replace_all_raises(find_all_index(text, HeaderArms, 1)))
DoEscapeHashes == Run(17, EscapeHashes(text), FALSE)
DoEscapePlus ==
    Run(18, EscapePlus(text),
        replace_all_raises(find_all_index(text, PlusArms, 1)))
DoFormatNumberedLists == Run(19, FormatNumberedLists(text), FALSE)
DoPreserveMinus ==
    Run(20, PreserveMinus(text),
        replace_all_raises(find_all_index(text, TempMinusArms, 2)))
DoConvertDashLists == Run(21, ConvertDashLists(text), FALSE)
DoEscapeMinus ==
    Run(22, EscapeMinus(text),
        replace_all_raises(find_all_index(RestoreFenceMinus(text), MinusArms, 1)))
DoSaveCodeBlocks == Run(23, SaveCodeBlocks(text), FALSE)
DoSaveBackticks ==
    Run(24, SaveBackticks(text),
        replace_all_raises(find_all_index(text, BacktickArms, 2)))
DoEscapeBackticks == Run(25, EscapeBackticks(text), FALSE)
DoEscapeDoubleBackticks ==
    Run(26, EscapeDoubleBackticks(text),
        replace_all_raises(find_all_index(text, DoubleArms, 1)))
DoRestoreCodeBlocks == Run(27, RestoreCodeBlocks(text), FALSE)
DoEscapePunctuation == Run(28, EscapePunctuation(text), FALSE)
DoFixUnevenBackticks ==
    Run(29, fix_uneven_backticks(text),
        fix_uneven_backticks_raises(text))

Next ==
    \/ DoSaveEscapedBrackets
    \/ DoSaveBackslashPairs
    \/ DoSaveEscapedBackticks
    \/ DoDoubleBackslashes
    \/ DoRestoreBackslashPairs
    \/ DoEscapeUnderscores
    \/ DoSaveBold
    \/ DoConvertBulletLists
    \/ DoEscapeAsterisks
    \/ DoRestoreBold
    \/ DoSaveLinks
    \/ DoEscapeBrackets
    \/ DoRestoreEscapedBrackets
    \/ DoRestoreLinks
    \/ DoEscapeTildeGreater
    \/ DoFormatHeaders
    \/ DoEscapeHashes
    \/ DoEscapePlus
    \/ DoFormatNumberedLists
    \/ DoPreserveMinus
    \/ DoConvertDashLists
    \/ DoEscapeMinus
    \/ DoSaveCodeBlocks
    \/ DoSaveBackticks
    \/ DoEscapeBackticks
    \/ DoEscapeDoubleBackticks
    \/ DoRestoreCodeBlocks
    \/ DoEscapePunctuation
    \/ DoFixUnevenBackticks

Spec == Init /\ [][Next]_vars

\* escape() has returned: `text` is its result
Returned == pc = LastPass

-----------------------------------------------------------------------------
(* replace_all() on its own: one call, with each pattern and function the  *)
(* repository hands it, and with the identity                              *)

ReplacePieces ==
    {<<"a">>, <<" ">>, <<NL>>, <<"+">>, <<"-">>, <<"#">>, <<BQ>>, Fence}
ReplaceInputs == Concats(ReplacePieces, MaxLen)

\* the patterns of the replace_all calls, each with the arm that is group 1
Patterns ==
    {[arms |-> HeaderArms, cap |-> 1], [arms |-> PlusArms, cap |-> 1],
     [arms |-> TempMinusArms, cap |-> 2], [arms |-> MinusArms, cap |-> 1],
     [arms |-> BacktickArms, cap |-> 2], [arms |-> DoubleArms, cap |-> 1],
     [arms |-> RepairArms, cap |-> 2]}
Functions ==
    {"escapeshape", "escape_special_char", "escape_temp_minus", "escape_minus",
     "escape_backquote_in_code", "escape_backquote", "lambda x: '\\' + x",
     "identity"}
Calls ==
    {[arms |-> p.arms, cap |-> p.cap, function |-> f] : p \in Patterns, f \in Functions}

InitReplaceAll ==
    /\ input \in ReplaceInputs
    /\ call \in Calls
    /\ flag = FALSE
    /\ text = input
    /\ pc = 0
    /\ raised = FALSE
    /\ first = None
    /\ NoSend
    /\ NoBot

\* text = replace_all(text, pattern, function)
DoReplaceAll ==
    /\ call # NoCall
    /\ pc = 0
    /\ ~raised
    /\ IF replace_all_raises(find_all_index(text, call.arms, call.cap))
       THEN raised' = TRUE /\ UNCHANGED <<text, pc>>
       ELSE /\ text' = replace_all(text, call.arms, call.cap, call.function)
            /\ pc' = 1
            /\ UNCHANGED raised
    /\ UNCHANGED <<input, flag, restVars>>

NextReplaceAll == DoReplaceAll

SpecReplaceAll == InitReplaceAll /\ [][NextReplaceAll]_vars

\* replace_all has returned
Replaced == call # NoCall /\ pc = 1

-----------------------------------------------------------------------------
(* fix_uneven_backticks() on its own: one call on any text *)

\* the pieces per text
FixLen == 4
FixPieces == {<<"a">>, <<" ">>, <<NL>>, <<BQ>>, <<BS, BQ>>, Fence \o <<NL>>}
FixInputs == Concats(FixPieces, FixLen)

FixCall == [arms |-> <<>>, cap |-> 0, function |-> "fix_uneven_backticks"]

InitFix ==
    /\ input \in FixInputs
    /\ call = FixCall
    /\ flag = FALSE
    /\ text = input
    /\ pc = 0
    /\ raised = FALSE
    /\ first = None
    /\ NoSend
    /\ NoBot

\* text = fix_uneven_backticks(text)
DoFix ==
    /\ call = FixCall
    /\ pc = 0
    /\ ~raised
    /\ IF fix_uneven_backticks_raises(text)
       THEN raised' = TRUE /\ UNCHANGED <<text, pc>>
       ELSE /\ text' = fix_uneven_backticks(text)
            /\ pc' = 1
            /\ UNCHANGED raised
    /\ UNCHANGED <<input, flag, restVars>>

NextFix == DoFix

SpecFix == InitFix /\ [][NextFix]_vars

\* fix_uneven_backticks has returned
Fixed == call = FixCall /\ pc = 1

-----------------------------------------------------------------------------
(* escape() called again on what it returned: escape(escape(x, flag), flag) *)

\* the first call has returned; its result is the text of the second call
EscapeAgain ==
    /\ pc = LastPass
    /\ ~raised
    /\ first = None
    /\ first' = text
    /\ pc' = 0
    /\ UNCHANGED <<input, flag, text, raised, call, sendVars, botVars>>

NextTwice == Next \/ EscapeAgain

SpecTwice == Init /\ [][NextTwice]_vars

\* the second call has returned
ReturnedTwice == first # None /\ pc = LastPass

-----------------------------------------------------------------------------
(* textwrap.wrap(message_, width, break_long_words=False,                  *)
(* replace_whitespace=False), as send_wrap calls it.  The texts wrapped    *)
(* here hold no tab and no "-", so expand_tabs and the breaks after        *)
(* hyphens and dashes do not come into play.                               *)

\* width=3500, scaled down
Width == 6

\* chunk.strip() == ''
IsBlank(chunk) == \A k \in 1..Len(chunk) : chunk[k] \in Whitespace

RECURSIVE split_chunks(_, _)
\* TextWrapper._split: the runs of whitespace and the words between them
split_chunks(s, p) ==
    IF p > Len(s) THEN <<>>
    ELSE IF s[p] \in Whitespace
         THEN <<SubSeq(s, p, RunEnd(s, p, Whitespace) - 1)>>
                \o split_chunks(s, RunEnd(s, p, Whitespace))
         ELSE <<SubSeq(s, p, NextIn(s, p, Whitespace) - 1)>>
                \o split_chunks(s, NextIn(s, p, Whitespace))

RECURSIVE TotalLen(_, _)
\* the length of the first n chunks together
TotalLen(chunks, n) ==
    IF n = 0 THEN 0 ELSE TotalLen(chunks, n - 1) + Len(chunks[n])

\* the number of chunks the inner loop of _wrap_chunks puts on a line
Fit(chunks, width) ==
    CHOOSE n \in 0..Len(chunks) :
        /\ TotalLen(chunks, n) <= width
        /\ n < Len(chunks) => TotalLen(chunks, n + 1) > width

\* _handle_long_word with break_long_words=False: a chunk longer than the
\* width goes on a line of its own
Taken(chunks, width) == IF Fit(chunks, width) = 0 THEN 1 ELSE Fit(chunks, width)

\* drop_whitespace: a line does not end with a whitespace chunk
Stripped(line) ==
    IF line # <<>> /\ IsBlank(line[Len(line)])
    THEN SubSeq(line, 1, Len(line) - 1) ELSE line

RECURSIVE wrap_chunks(_, _, _)
\* one line of n chunks, then the lines of the chunks after it
wrap_line(chunks, width, n, no_lines) ==
    IF Stripped(SubSeq(chunks, 1, n)) = <<>>
    THEN wrap_chunks(SubSeq(chunks, n + 1, Len(chunks)), width, no_lines)
    ELSE <<join(<<>>, Stripped(SubSeq(chunks, 1, n)))>>
           \o wrap_chunks(SubSeq(chunks, n + 1, Len(chunks)), width, FALSE)

\* TextWrapper._wrap_chunks; no_lines: `lines` is still empty
wrap_chunks(chunks, width, no_lines) ==
    IF chunks = <<>> THEN <<>>
    ELSE IF ~no_lines /\ IsBlank(Head(chunks))
         THEN IF Tail(chunks) = <<>> THEN <<>>
              ELSE wrap_line(Tail(chunks), width, Taken(Tail(chunks), width), no_lines)
         ELSE wrap_line(chunks, width, Taken(chunks, width), no_lines)

wrap(s, width) == wrap_chunks(split_chunks(s, 1), width, TRUE)

-----------------------------------------------------------------------------
(* send_message(update, message, format, parse_mode)                       *)

SendPieces ==
    {<<"a">>, <<" ">>, <<NL>>, <<".">>, <<BS>>, <<"a", " ", "b">>, Fence}
Messages == Concats(SendPieces, MaxLen)
ParseModes == {"HTML", "MarkdownV2"}
\* the text of the error reply of the outer handler
ErrorText == <<"e", "r", "r", "o", "r">>

InitSend ==
    /\ input \in Messages
    /\ format \in BOOLEAN
    /\ parse_mode \in ParseModes
    /\ stage = "send_message"
    /\ queue = <<>>
    /\ sent = <<>>
    /\ flag = FALSE
    /\ text = input
    /\ pc = 0
    /\ raised = FALSE
    /\ call = NoCall
    /\ first = None
    /\ NoBot

\* if format: formatted_message = escape(message)
CallEscape ==
    /\ stage = "send_message"
    /\ format
    /\ stage' = "escape"
    /\ UNCHANGED <<input, flag, text, pc, raised, call, first, botVars,
                   format, parse_mode, queue, sent>>

\* else: await send_wrap(message)
SendUnformatted ==
    /\ stage = "send_message"
    /\ ~format
    /\ stage' = "unformatted"
    /\ queue' = wrap(input, Width)
    /\ UNCHANGED <<input, flag, text, pc, raised, call, first, botVars,
                   format, parse_mode, sent>>

\* escape has returned: await send_wrap(formatted_message)
SendFormatted ==
    /\ stage = "escape"
    /\ pc = LastPass
    /\ stage' = "formatted"
    /\ queue' = wrap(text, Width)
    /\ UNCHANGED <<input, flag, text, pc, raised, call, first, botVars,
                   format, parse_mode, sent>>

\* send_wrap is running
Sending == stage \in {"formatted", "fallback", "unformatted"}

\* await update.message.reply_text(chunk, parse_mode=parse_mode), accepted
ReplyChunk ==
    /\ Sending
    /\ queue # <<>>
    /\ sent' = Append(sent, [chunk |-> Head(queue), parse_mode |-> parse_mode,
                             stage |-> stage])
    /\ queue' = Tail(queue)
    /\ UNCHANGED <<input, flag, text, pc, raised, call, first, botVars,
                   stage, format, parse_mode>>

\* the inner try fails, because escape raised or because Telegram rejected a
\* chunk of the formatted message:  except Exception: await send_wrap(message)
Fallback ==
    /\ \/ stage = "escape" /\ raised
       \/ stage = "formatted" /\ queue # <<>>
    /\ stage' = "fallback"
    /\ queue' = wrap(input, Width)
    /\ UNCHANGED <<input, flag, text, pc, raised, call, first, botVars,
                   format, parse_mode, sent>>

\* Telegram rejects a chunk of the fallback or of the unformatted message:
\* the outer handler replies with the error, parse_mode=ParseMode.HTML
ReplyError ==
    /\ stage \in {"fallback", "unformatted"}
    /\ queue # <<>>
    /\ stage' = "error"
    /\ queue' = <<>>
    /\ sent' = Append(sent, [chunk |-> ErrorText, parse_mode |-> "HTML",
                             stage |-> "error"])
    /\ UNCHANGED <<input, flag, text, pc, raised, call, first, botVars,
                   format, parse_mode>>

\* send_wrap has sent its last chunk and send_message returns
SendReturn ==
    /\ Sending
    /\ queue = <<>>
    /\ stage' = "done"
    /\ UNCHANGED <<input, flag, text, pc, raised, call, first, botVars,
                   format, parse_mode, queue, sent>>

NextSend ==
    \/ CallEscape
    \/ Next
    \/ SendFormatted
    \/ SendUnformatted
    \/ ReplyChunk
    \/ Fallback
    \/ ReplyError
    \/ SendReturn

SpecSend == InitSend /\ [][NextSend]_vars

-----------------------------------------------------------------------------
(* The command handlers.  No call of escape() or send_message is in        *)
(* progress while they are studied.                                        *)

textVars == <<input, flag, text, pc, raised, call, first, sendVars>>

NoEscape ==
    /\ input = <<>> /\ flag = FALSE /\ text = <<>> /\ pc = 0 /\ raised = FALSE
    /\ call = NoCall /\ first = None
    /\ stage = "none" /\ format = TRUE /\ parse_mode = "MarkdownV2"
    /\ queue = <<>> /\ sent = <<>>

-----------------------------------------------------------------------------
(* Blocked users: FireBaseDB.block_user, unblock_user, _load_blocked_users *)
(* and the decorator `restricted`.  An operation on Firebase that raises   *)
(* leaves block_user and unblock_user without effect (ValueError), so only *)
(* their successful runs are steps.                                        *)

banVars == <<stored_blocked, blocked_users_cache, LIST_OF_BAN_IDS, ban_shared, blocked>>
adminVars == <<stored_admins, admins_users, ADMIN_ID_LIST, admin_shared, granted>>

\* after FireBaseDB.__init__ (whose _load_blocked_users read Firebase, or
\* failed and left an empty set) and the import of decoders_, which binds
\* LIST_OF_BAN_IDS to the set DB.blocked_users_cache refers to
InitBan ==
    /\ NoEscape /\ NoLimit /\ NoShutdown /\ NoApp
    /\ stored_admins = {} /\ admins_users = {} /\ ADMIN_ID_LIST = {}
    /\ admin_shared = TRUE /\ granted = {}
    /\ stored_blocked \in SUBSET Users
    /\ blocked_users_cache \in {stored_blocked, {}}
    /\ LIST_OF_BAN_IDS = blocked_users_cache
    /\ ban_shared = TRUE
    /\ blocked = {}
    /\ handled = NotHandled

\* DB.block_user(userId): INFO_DB.update, then blocked_users_cache.add
block_user(userId) ==
    /\ stored_blocked' = stored_blocked \cup {userId}
    /\ blocked_users_cache' = blocked_users_cache \cup {userId}
    /\ LIST_OF_BAN_IDS' = IF ban_shared THEN LIST_OF_BAN_IDS \cup {userId}
                          ELSE LIST_OF_BAN_IDS
    /\ blocked' = blocked \cup {userId}
    /\ UNCHANGED <<ban_shared, handled, adminVars, limitVars, offVars, textVars, appVars>>

\* DB.unblock_user(userId): INFO_DB.child(userId).delete, then discard
unblock_user(userId) ==
    /\ stored_blocked' = stored_blocked \ {userId}
    /\ blocked_users_cache' = blocked_users_cache \ {userId}
    /\ LIST_OF_BAN_IDS' = IF ban_shared THEN LIST_OF_BAN_IDS \ {userId}
                          ELSE LIST_OF_BAN_IDS
    /\ blocked' = blocked \ {userId}
    /\ UNCHANGED <<ban_shared, handled, adminVars, limitVars, offVars, textVars, appVars>>

\* DB._load_blocked_users(), called by blocked_pagination_callback on
\* "blocked_refresh": self.blocked_users_cache is bound to a new set, the
\* keys read from Firebase, or the empty set when the read raises
load_blocked_users(read) ==
    /\ blocked_users_cache' = IF read THEN stored_blocked ELSE {}
    /\ ban_shared' = FALSE
    /\ UNCHANGED <<stored_blocked, LIST_OF_BAN_IDS, blocked, handled,
                   adminVars, limitVars, offVars, textVars, appVars>>

\* a handler wrapped with `restricted` is called by user_id
restricted(user_id) ==
    /\ handled' = [by |-> "restricted", user |-> user_id,
                   executed |-> user_id \notin LIST_OF_BAN_IDS,
                   allowed |-> user_id \notin blocked]
    /\ UNCHANGED <<banVars, adminVars, limitVars, offVars, textVars, appVars>>

NextBan ==
    \/ \E u \in Users : block_user(u)
    \/ \E u \in Users : unblock_user(u)
    \/ \E read \in BOOLEAN : load_blocked_users(read)
    \/ \E u \in Users : restricted(u)

SpecBan == InitBan /\ [][NextBan]_vars

-----------------------------------------------------------------------------
(* Admins: FireBaseDB.add_admin, remove_admin, _load_admin_users and the   *)
(* decorator IsAdmin                                                       *)

InitAdmin ==
    /\ NoEscape /\ NoLimit /\ NoShutdown /\ NoApp
    /\ stored_blocked = {} /\ blocked_users_cache = {} /\ LIST_OF_BAN_IDS = {}
    /\ ban_shared = TRUE /\ blocked = {}
    /\ stored_admins \in SUBSET Users
    /\ admins_users \in {stored_admins, {}}
    /\ ADMIN_ID_LIST = admins_users
    /\ admin_shared = TRUE
    /\ granted = admins_users
    /\ handled = NotHandled

\* DB.add_admin(userId): INFO_ADMIN.update, then admins_users.add
add_admin(userId) ==
    /\ stored_admins' = stored_admins \cup {userId}
    /\ admins_users' = admins_users \cup {userId}
    /\ ADMIN_ID_LIST' = IF admin_shared THEN ADMIN_ID_LIST \cup {userId}
                        ELSE ADMIN_ID_LIST
    /\ granted' = granted \cup {userId}
    /\ UNCHANGED <<admin_shared, handled, banVars, limitVars, offVars, textVars, appVars>>

\* DB.remove_admin(userId): INFO_ADMIN.child(userId).delete, then discard
remove_admin(userId) ==
    /\ stored_admins' = stored_admins \ {userId}
    /\ admins_users' = admins_users \ {userId}
    /\ ADMIN_ID_LIST' = IF admin_shared THEN ADMIN_ID_LIST \ {userId}
                        ELSE ADMIN_ID_LIST
    /\ granted' = granted \ {userId}
    /\ UNCHANGED <<admin_shared, handled, banVars, limitVars, offVars, textVars, appVars>>

\* DB._load_admin_users(), called by list_admins: self.admins_users is bound
\* to a new set
load_admin_users(read) ==
    /\ admins_users' = IF read THEN stored_admins ELSE {}
    /\ admin_shared' = FALSE
    /\ UNCHANGED <<stored_admins, ADMIN_ID_LIST, granted, handled,
                   banVars, limitVars, offVars, textVars, appVars>>

\* a handler wrapped with IsAdmin is called by user_id
IsAdmin(user_id) ==
    /\ handled' = [by |-> "IsAdmin", user |-> user_id,
                   executed |-> user_id \in ADMIN_ID_LIST \/ user_id = Owner,
                   allowed |-> user_id \in granted \/ user_id = Owner]
    /\ UNCHANGED <<banVars, adminVars, limitVars, offVars, textVars, appVars>>

NextAdmin ==
    \/ \E u \in Users : add_admin(u)
    \/ \E u \in Users : remove_admin(u)
    \/ \E read \in BOOLEAN : load_admin_users(read)
    \/ \E u \in Users : IsAdmin(u)

SpecAdmin == InitAdmin /\ [][NextAdmin]_vars

-----------------------------------------------------------------------------
(* rate_limit.  The dispatcher awaits one update at a time, so a call of   *)
(* the wrapper is one step.  ratelimit.acquire is outside the repository:  *)
(* its answer is an input.  An entry of a TTLCache goes away when its time *)
(* is up or when the cache is full; both are the Expire steps.             *)

\* the users who send commands; each sends one command, so the key
\* userid:command of command_cooldowns is the user
Senders == {"u1", "u2"}
\* the deliveries counted per entry
MaxCount == 2

InitLimit ==
    /\ NoEscape /\ NoAccess /\ NoShutdown /\ NoApp
    /\ command_cooldowns = {}
    /\ warned_users = {}
    /\ reported_users = {}
    /\ warnings = [u \in Users |-> 0]
    /\ reports = [u \in Users |-> 0]

\* the variant of ShouldWarn without the test
AlwaysWarn(userid) == TRUE
\* if userid not in warned_users
ShouldWarn(userid) == userid \notin warned_users
\* elif userid not in reported_users
ShouldReport(userid) == userid \notin reported_users

\* what a limited call sends
Sends(userid) ==
    IF ShouldWarn(userid) THEN "warning"
    ELSE IF ShouldReport(userid) THEN "report"
    ELSE "nothing"

Counted(n) == IF n < MaxCount THEN n + 1 ELSE n

\* the wrapper is called by userid; is_limited is the answer of
\* ratelimit.acquire, delivered tells whether Telegram accepts what the
\* wrapper sends
rate_limit(userid, is_limited, delivered) ==
    /\ handled' =
          [by |-> "rate_limit", user |-> userid,
           cooldown |-> userid \in command_cooldowns,
           allowed |-> ~is_limited,
           executed |-> userid \notin command_cooldowns /\ ~is_limited,
           sent |-> IF userid \in command_cooldowns \/ ~is_limited \/ ~delivered
                    THEN "nothing" ELSE Sends(userid),
           warned |-> userid \in warned_users,
           reported |-> userid \in reported_users]
    /\ IF userid \in command_cooldowns
       THEN UNCHANGED limitVars
       ELSE IF ~is_limited
       THEN /\ command_cooldowns' = command_cooldowns \cup {userid}
            /\ UNCHANGED <<warned_users, reported_users, warnings, reports>>
       ELSE IF ~delivered
       THEN UNCHANGED limitVars
       ELSE IF Sends(userid) = "warning"
       THEN /\ warned_users' = warned_users \cup {userid}
            /\ warnings' = [warnings EXCEPT ![userid] = Counted(@)]
            /\ UNCHANGED <<command_cooldowns, reported_users, reports>>
       ELSE IF Sends(userid) = "report"
       THEN /\ reported_users' = reported_users \cup {userid}
            /\ reports' = [reports EXCEPT ![userid] = Counted(@)]
            /\ UNCHANGED <<command_cooldowns, warned_users, warnings>>
       ELSE UNCHANGED limitVars
    /\ UNCHANGED <<banVars, adminVars, offVars, textVars, appVars>>

\* command_cooldowns = TTLCache(maxsize=512, ttl=5)
ExpireCooldown(userid) ==
    /\ userid \in command_cooldowns
    /\ command_cooldowns' = command_cooldowns \ {userid}
    /\ UNCHANGED <<warned_users, reported_users, warnings, reports,
                   accessVars, offVars, textVars, appVars>>

\* warned_users = TTLCache(maxsize=256, ttl=60)
ExpireWarned(userid) ==
    /\ userid \in warned_users
    /\ warned_users' = warned_users \ {userid}
    /\ warnings' = [warnings EXCEPT ![userid] = 0]
    /\ UNCHANGED <<command_cooldowns, reported_users, reports,
                   accessVars, offVars, textVars, appVars>>

\* reported_users = TTLCache(maxsize=128, ttl=300)
ExpireReported(userid) ==
    /\ userid \in reported_users
    /\ reported_users' = reported_users \ {userid}
    /\ reports' = [reports EXCEPT ![userid] = 0]
    /\ UNCHANGED <<command_cooldowns, warned_users, warnings,
                   accessVars, offVars, textVars, appVars>>

NextLimit ==
    \/ \E u \in Senders, is_limited \in BOOLEAN, delivered \in BOOLEAN :
          rate_limit(u, is_limited, delivered)
    \/ \E u \in Senders : ExpireCooldown(u)
    \/ \E u \in Senders : ExpireWarned(u)
    \/ \E u \in Senders : ExpireReported(u)

SpecLimit == InitLimit /\ [][NextLimit]_vars

-----------------------------------------------------------------------------
(* /off.  shutdown_bot posts a message with the two buttons in the chat    *)
(* where the owner wrote the command and starts the timer; Telegram        *)
(* delivers a callback for a button to whoever presses it while the        *)
(* message carries the buttons; editing the message removes them.          *)

Chats == {"private", "group"}
Buttons == {"shutdown_confirm", "shutdown_cancel"}
\* the confirmation messages the owner asks for
MaxRequests == 2

InitOff ==
    /\ NoEscape /\ NoAccess /\ NoLimit /\ NoShutdown /\ NoApp

\* @IsOwner: user_id == str(OWNER_ID)
IsOwner(user_id) == user_id = Owner

\* the message reply_text posts, with its buttons, and its timer not yet up
Request(chat) == [chat |-> chat, buttons |-> TRUE, expired |-> FALSE]

\* a user can press a button of a message of a chat they are in
CanPress(user_id, m) ==
    /\ confirmation[m].buttons
    /\ confirmation[m].chat = "group" \/ user_id = Owner

\* /off [password] written by user_id in chat
shutdown_bot(user_id, password_ok, chat) ==
    /\ ~exited
    /\ handled' = [by |-> "shutdown_bot", user |-> user_id,
                   executed |-> IsOwner(user_id),
                   allowed |-> IsOwner(user_id) /\ password_ok]
    /\ IF IsOwner(user_id) /\ password_ok
       THEN /\ Len(confirmation) < MaxRequests
            /\ confirmation' = Append(confirmation, Request(chat))
       ELSE UNCHANGED confirmation
    /\ UNCHANGED <<confirmer, exited, banVars, adminVars, limitVars, textVars, appVars>>

\* user_id presses the button data of message m; edited tells whether
\* edit_message_text succeeds (it raises otherwise)
shutdown_callback(user_id, m, data, edited) ==
    /\ ~exited
    /\ m <= Len(confirmation)
    /\ CanPress(user_id, m)
    /\ handled' = [by |-> "shutdown_callback", user |-> user_id,
                   executed |-> edited, data |-> data,
                   allowed |-> IsOwner(user_id) /\ ~confirmation[m].expired]
    /\ confirmation' = IF edited THEN [confirmation EXCEPT ![m].buttons = FALSE]
                       ELSE confirmation
    /\ exited' = (edited /\ data = "shutdown_confirm")
    /\ confirmer' = IF edited /\ data = "shutdown_confirm" THEN user_id ELSE confirmer
    /\ UNCHANGED <<banVars, adminVars, limitVars, textVars, appVars>>

\* the job of run_once for message m after CONFIRM_TIMEOUT; the failure of
\* the edit is swallowed
clear_shutdown_request(m, edited) ==
    /\ ~exited
    /\ m <= Len(confirmation)
    /\ ~confirmation[m].expired
    /\ confirmation' = [confirmation EXCEPT ![m].expired = TRUE,
                                            ![m].buttons = IF edited THEN FALSE ELSE @]
    /\ handled' = [by |-> "clear_shutdown_request", user |-> "none",
                   executed |-> edited, allowed |-> TRUE]
    /\ UNCHANGED <<confirmer, exited, banVars, adminVars, limitVars, textVars, appVars>>

NextOff ==
    \/ \E u \in Users, password_ok \in BOOLEAN, chat \in Chats :
          shutdown_bot(u, password_ok, chat)
    \/ \E u \in Users, m \in 1..MaxRequests, data \in Buttons, edited \in BOOLEAN :
          shutdown_callback(u, m, data, edited)
    \/ \E m \in 1..MaxRequests, edited \in BOOLEAN :
          clear_shutdown_request(m, edited)

SpecOff == InitOff /\ [][NextOff]_vars

-----------------------------------------------------------------------------
(* Vocabulary of the properties *)

Letters == {"a", "b", "c", "d", "e", "f", "g", "h", "i", "j", "k", "l", "m",
            "n", "o", "p", "q", "r", "s", "t", "u", "v", "w", "x", "y", "z",
            "A", "B", "C", "D", "E", "F", "G", "H", "I", "J", "K", "L", "M",
            "N", "O", "P", "Q", "R", "S", "T", "U", "V", "W", "X", "Y", "Z"}
Brackets == {"[", "]", "(", ")"}

Chars(s) == {s[k] : k \in 1..Len(s)}
Contains(s, lit) == \E p \in 1..Len(s) : At(s, p, lit)
Occurrences(s, lit) == Cardinality({p \in 1..Len(s) : At(s, p, lit)})

\* the positions at which a line of s starts
LineStarts(s) == {1} \cup {k + 1 : k \in {j \in 1..Len(s) : s[j] = NL}}
\* the line of s that starts at a
LineAt(s, a) == SubSeq(s, a, LineEnd(s, a) - 1)

\* the fenced blocks of s: the matches of ```[\D\d\s]+?```, leftmost first
FencedBlocks(s) == finditer(<<FencedBlock>>, 1, s, 1)
HasFence(s) == FencedBlocks(s) # <<>>
\* position k of s lies in a fenced block (delimiters included)
InFence(s, k) ==
    \E m \in 1..Len(FencedBlocks(s)) :
        FencedBlocks(s)[m].start < k /\ k <= FencedBlocks(s)[m].end
\* no character of the line of s that starts at a lies in a fenced block
OutsideFences(s, a) == \A k \in a..(LineEnd(s, a) - 1) : ~InFence(s, k)
\* the characters between the delimiters of the first fenced block of s
FirstInterior(s) ==
    SubSeq(s, FencedBlocks(s)[1].start + 4, FencedBlocks(s)[1].end - 3)

\* the backticks of the line at a that no backslash precedes
RawBackticks(s, a) ==
    {k \in a..(LineEnd(s, a) - 1) : s[k] = BQ /\ ~(k > a /\ s[k - 1] = BS)}

RECURSIVE EscapeEach(_, _)
\* s with a backslash put before every character of `set`
EscapeEach(s, set) ==
    IF s = <<>> THEN <<>>
    ELSE (IF Head(s) \in set THEN <<BS, Head(s)>> ELSE <<Head(s)>>)
           \o EscapeEach(Tail(s), set)

-----------------------------------------------------------------------------
(* Properties *)

\* C1 (zero-leak): when the input holds no "@" and no "^", the returned text
\* holds no "@" and no "^", hence none of the placeholder sequences.
ZeroLeak ==
    (Returned /\ Chars(input) \cap {"@", "^"} = {})
        => Chars(text) \cap {"@", "^"} = {}

\* C2 (fence opacity): when the input holds a fenced block, the returned text
\* holds one too and the characters between the delimiters of the first
\* block are those of the input's first block.
FenceOpacity ==
    (Returned /\ HasFence(input))
        => HasFence(text) /\ FirstInterior(text) = FirstInterior(input)

\* C3: escape never raises, every pass that is reached can run, and what it
\* returns is a string (a sequence of characters), whatever the input and the
\* flag, malformed markup included.
EscapeNeverRaises ==
    /\ ~raised
    /\ pc \in 0..LastPass
    /\ Returned => text \in Seq(STRING)

\* s holds a fence delimiter that opens no fenced block
UnterminatedFence(s) == Contains(s, Fence) /\ ~HasFence(s)
\* s holds a line with an odd number of backticks
OddBackticks(s) ==
    \E a \in LineStarts(s) : Cardinality(RawBackticks(s, a)) % 2 = 1

\* C3 witness: escape has run to its return, without raising, on an input
\* with an unterminated fence and an odd number of backticks on a line
MalformedReturned ==
    /\ Returned /\ ~raised
    /\ UnterminatedFence(input) /\ OddBackticks(input)

\* C4 (parity repair): in the returned text no line outside the fenced blocks
\* carries an odd number of backticks that no backslash precedes.
ParityRepaired ==
    Returned =>
        \A a \in LineStarts(text) :
            OutsideFences(text, a)
                => Cardinality(RawBackticks(text, a)) % 2 = 0

\* every bracket or parenthesis of s is preceded by exactly one backslash
SinglyEscaped(s) ==
    \A k \in 1..Len(s) :
        s[k] \in Brackets =>
            /\ k > 1 /\ s[k - 1] = BS
            /\ (k > 2 => s[k - 2] # BS)

\* C5: when every bracket and parenthesis of the input is already escaped by
\* one backslash, the returned text holds the same brackets and parentheses
\* in the same order, each still preceded by exactly one backslash.
EscapedBracketsKept ==
    (Returned /\ SinglyEscaped(input))
        => /\ SinglyEscaped(text)
           /\ SelectSeq(text, LAMBDA c : c \in Brackets)
                = SelectSeq(input, LAMBDA c : c \in Brackets)

\* the pattern of a link:  \!? \[ ( .*? ) \] \( ( .*? ) \)
LinkPattern == Pair(TRUE, <<"[">>, <<"]", "(">>, <<")">>)
\* the input starts with a [label](url) construct
StartsWithLink(s) == Is(s, 1, {"["}) /\ MatchEnd(LinkPattern, s, 1) # 0
\* that construct
LeadingLink(s) == SubSeq(s, 1, MatchEnd(LinkPattern, s, 1) - 1)

\* C6: a [label](url) construct at the start of the input is returned
\* verbatim at the start of the output, and scenario B yields exactly
\* "[OpenAI](https://openai.com)\.".
LinkKeptVerbatim ==
    /\ (Returned /\ StartsWithLink(input))
          => SubSeq(text, 1, Len(LeadingLink(input))) = LeadingLink(input)
    /\ (Returned /\ input = ScenarioB)
          => text = SubSeq(ScenarioB, 1, Len(ScenarioB) - 1) \o <<BS, ".">>

\* the list-item lines of s: the lines after the first that begin with "- "
\* or "* "
ItemLines(s) ==
    {a \in LineStarts(s) \ {1} : At(s, a, <<"-", " ">>) \/ At(s, a, <<"*", " ">>)}

\* the text of the item line of s that starts at a, after its marker
ItemText(s, a) == SubSeq(s, a + 2, LineEnd(s, a) - 1)
\* s holds a line that ends with lit
HoldsLineEnding(s, lit) ==
    \E p \in 1..Len(s) :
        At(s, p, lit) /\ (p + Len(lit) > Len(s) \/ s[p + Len(lit)] = NL)

\* C7 (list markers): with no fenced block in the input, every line after the
\* first that begins with "- " or "* " and goes on with letters, digits and
\* spaces only is returned as two newlines, the bullet glyph, a space and the
\* item text, no backslash added; scenario A yields
\* "Intro\n\n<bullet> item1\n\n<bullet> item2".
ListMarkersNormalized ==
    /\ (Returned /\ ~Contains(input, Fence))
          => \A a \in ItemLines(input) :
                Chars(ItemText(input, a)) \subseteq Letters \cup Digits \cup {" "}
                    => HoldsLineEnding(text, <<NL, NL, Bullet, " ">> \o ItemText(input, a))
    /\ (Returned /\ input = ScenarioA)
          => text = <<"I", "n", "t", "r", "o", NL, NL, Bullet, " ", "i", "t",
                      "e", "m", "1", NL, NL, Bullet, " ", "i", "t", "e", "m", "2">>

\* the header lines of s: the lines that start with a run of "#", then a
\* space or tab, then at least one more character
HeaderLines(s) ==
    {a \in LineStarts(s) :
        /\ Is(s, a, {"#"})
        /\ Is(s, RunEnd(s, a, {"#"}), {" ", "\t"})
        /\ LineEnd(s, a) > RunEnd(s, a, {"#"}) + 1}

\* C8 (headers): with no fenced block in the input, every header line, the
\* last line included, is returned as the heading glyph and bold text, so the
\* output holds as many heading glyphs as the input holds header lines;
\* scenario C yields "<glyph>*Title*\n\nbody".
HeadersFormatted ==
    /\ (Returned /\ ~Contains(input, Fence))
          => Occurrences(text, <<HeadGlyph, "*">>) = Cardinality(HeaderLines(input))
    /\ (Returned /\ input = ScenarioC)
          => text = <<HeadGlyph, "*", "T", "i", "t", "l", "e", "*", NL, NL,
                      "b", "o", "d", "y">>

\* the start of the k-th line of s
NthLineStart(s, k) ==
    CHOOSE a \in LineStarts(s) :
        Cardinality({b \in LineStarts(s) : b < a}) = k - 1
\* the k-th line of s
NthLine(s, k) == LineAt(s, NthLineStart(s, k))

\* C9 (stray backtick): for an input of letters, spaces, newlines and
\* backticks, every line that holds exactly one backtick and lies outside the
\* fenced blocks is returned with that backtick escaped and nothing else
\* changed.
StrayBacktickEscaped ==
    (Returned /\ Chars(input) \subseteq Letters \cup {" ", NL, BQ})
        => /\ Cardinality(LineStarts(text)) = Cardinality(LineStarts(input))
           /\ \A k \in 1..Cardinality(LineStarts(input)) :
                 (/\ Occurrences(NthLine(input, k), <<BQ>>) = 1
                  /\ OutsideFences(input, NthLineStart(input, k)))
                    => NthLine(text, k) = EscapeEach(NthLine(input, k), {BQ})

\* the characters of scenario E: letters, digits, spaces, "." and "!"
PlainChars == Letters \cup Digits \cup {" ", ".", "!"}

\* C10: for an input of letters, digits, spaces, "." and "!", the returned
\* text is the input with a backslash before every "." and every "!".
PlainTextEscaped ==
    (Returned /\ Chars(input) \subseteq PlainChars)
        => text = EscapeEach(input, {".", "!"})

\* C10 witness: a plain input holding a "." and a "!" has been returned
PlainTextReturned ==
    /\ Returned
    /\ Chars(input) \subseteq PlainChars
    /\ {".", "!", "a"} \subseteq Chars(input)
    /\ Occurrences(text, <<BS, ".">>) = 1
    /\ Occurrences(text, <<BS, "!">>) = 1

\* the matches of the pattern of the call in its input, leftmost first
CallMatches == finditer(call.arms, call.cap, input, 1)
\* the group-1 spans among them
Targets(matches) == SelectSeq(matches, LAMBDA m : m.group1)

RECURSIVE SpanTransform(_, _, _, _)
\* P0 f(T0) P1 f(T1) ... Pk: s from offset pos on, each target replaced by
\* f of it and everything else copied
SpanTransform(s, targets, f, pos) ==
    IF targets = <<>> THEN Slice(s, pos, Len(s))
    ELSE Slice(s, pos, Head(targets).start)
           \o Apply(f, Slice(s, Head(targets).start, Head(targets).end))
           \o SpanTransform(s, Tail(targets), f, Head(targets).end)

\* C11 (selective span transform): replace_all returns, without raising,
\* the in-order concatenation P0 f(T0) P1 ... f(Tk-1) Pk over the group-1
\* spans of the matches, and with f the identity it returns its input.
SelectiveSpanTransform ==
    /\ call # NoCall => ~raised
    /\ Replaced =>
          text = SpanTransform(input, Targets(CallMatches), call.function, 0)
    /\ (Replaced /\ call.function = "identity") => text = input

\* C11 witness: replace_all has returned for an input with two targets, one
\* at the very start and one at the very end of the text, and an opaque
\* match (a match whose group did not take part) between them
SpanTransformReturned ==
    /\ Replaced
    /\ call.function = "escape_special_char"
    /\ Len(Targets(CallMatches)) = 2
    /\ Len(CallMatches) = 3
    /\ Targets(CallMatches)[1].start = 0
    /\ Targets(CallMatches)[2].end = Len(input)
    /\ text # input

\* C12 (no idempotence): for every input that holds a "." or a "!", escape
\* applied to its own result returns something else than that result, so
\* there are inputs x with escape(escape(x)) # escape(x).
NotIdempotent ==
    (ReturnedTwice /\ Chars(input) \cap {".", "!"} # {}) => text # first

\* C12 witness: escape(".") is "\." and escape("\.") is "\\\."
EscapedTwice ==
    /\ ReturnedTwice
    /\ input = <<".">>
    /\ first = <<BS, ".">>
    /\ text = <<BS, BS, BS, ".">>

\* every fence delimiter of s has its partner: their number is even
FencesClosed(s) == Len(finditer(<<Lit(Fence)>>, 1, s, 1)) % 2 = 0
\* the number of backslashes s ends with
TrailingBackslashes(s) == Len(s) + 1 - Least({p \in 1..(Len(s) + 1) :
                                  \A k \in p..Len(s) : s[k] = BS})
\* send_wrap has split the escaped message and sent nothing yet: queue holds
\* all its chunks
FormattedChunks == stage = "formatted" /\ sent = <<>>

\* C13: when the escaped message is longer than the chunk width, no chunk
\* boundary falls inside a fenced block (every chunk of a text whose fences
\* are closed has its fences closed) and none falls between an escaping
\* backslash and its character (no chunk ends with an odd run of
\* backslashes).
ChunksKeepBlocksAndEscapes ==
    (FormattedChunks /\ Len(text) > Width) =>
        \A i \in 1..Len(queue) :
            /\ FencesClosed(text) => FencesClosed(queue[i])
            /\ TrailingBackslashes(queue[i]) % 2 = 0

\* C14: what send_message sends after the formatted text was rejected, it
\* sends without a parse mode.
RetryIsPlain ==
    \A k \in 1..Len(sent) :
        sent[k].stage = "fallback" => sent[k].parse_mode = "None"

\* C15 (ban enforcement): a call of a `restricted` handler by a user whose
\* block_user succeeded and has not been undone by unblock_user does not
\* execute the handler body.
BanEnforced ==
    (handled.by = "restricted" /\ ~handled.allowed) => ~handled.executed

\* C16 (admin gating): a call of an IsAdmin handler executes the body exactly
\* when the caller is the owner or is an admin by the add_admin and
\* remove_admin calls so far.
AdminGated ==
    handled.by = "IsAdmin" => (handled.executed <=> handled.allowed)

\* C17 (rate limiting): a limited call never executes the handler; a report
\* is delivered only in a call that finds the user in warned_users, that is
\* after a warning was delivered; a limited call that finds the user in both
\* caches sends nothing; and per user at most one warning is delivered per
\* entry in warned_users and at most one report per entry in reported_users.
RateLimited ==
    /\ handled.by = "rate_limit" =>
          /\ ~handled.allowed => ~handled.executed
          /\ handled.sent = "report" => handled.warned /\ ~handled.reported
          /\ handled.sent = "warning" => ~handled.warned
          /\ (handled.warned /\ handled.reported) => handled.sent = "nothing"
    /\ \A u \in Users :
          /\ warnings[u] <= 1 /\ reports[u] <= 1
          /\ u \in warned_users <=> warnings[u] = 1
          /\ u \in reported_users <=> reports[u] = 1

\* C17 witness: a user who got one warning and one report is limited again
\* and gets nothing
LimitedAgain ==
    /\ handled.by = "rate_limit"
    /\ ~handled.allowed /\ ~handled.cooldown
    /\ handled.warned /\ handled.reported
    /\ handled.sent = "nothing" /\ ~handled.executed
    /\ warnings[handled.user] = 1 /\ reports[handled.user] = 1

\* C18 (shutdown gating): the process has exited only if the owner pressed
\* shutdown_confirm on a confirmation message whose request had not expired.
ShutdownGated ==
    exited => /\ handled.by = "shutdown_callback"
              /\ confirmer = Owner
              /\ handled.allowed

\* the literal backslashes of an escaped text: read from the left, a
\* backslash followed by a backslash is one literal backslash, a backslash
\* followed by anything else escapes that character
RECURSIVE BackslashUnits(_, _)
BackslashUnits(o, i) ==
    IF i > Len(o) THEN 0
    ELSE IF o[i] # BS THEN BackslashUnits(o, i + 1)
    ELSE IF i < Len(o) /\ o[i + 1] = BS THEN 1 + BackslashUnits(o, i + 2)
    ELSE BackslashUnits(o, i + 2)

\* the characters before which a backslash is kept as it is
KeptEscapes == {"[", "]", "(", ")", BQ}

\* the backslashes of s to be emitted as a pair: with the flag each pair of
\* consecutive backslashes is one, and each backslash that is left and does
\* not stand before a character of KeptEscapes is one
RECURSIVE EmittedPairs(_, _, _)
EmittedPairs(s, f, i) ==
    IF i > Len(s) THEN 0
    ELSE IF s[i] # BS THEN EmittedPairs(s, f, i + 1)
    ELSE IF f /\ i < Len(s) /\ s[i + 1] = BS THEN 1 + EmittedPairs(s, f, i + 2)
    ELSE IF i < Len(s) /\ s[i + 1] \in KeptEscapes THEN EmittedPairs(s, f, i + 2)
    ELSE 1 + EmittedPairs(s, f, i + 1)

\* a backslash of s that is kept before a backtick
RECURSIVE KeepsBacktick(_, _, _)
KeepsBacktick(s, f, i) ==
    IF i > Len(s) THEN FALSE
    ELSE IF s[i] # BS THEN KeepsBacktick(s, f, i + 1)
    ELSE IF f /\ i < Len(s) /\ s[i + 1] = BS THEN KeepsBacktick(s, f, i + 2)
    ELSE IF i < Len(s) /\ s[i + 1] = BQ THEN TRUE
    ELSE KeepsBacktick(s, f, i + 1)

BoldSpans(s) == finditer(<<Lazy(<<"*", "*">>, <<"*", "*">>, FALSE, 0)>>, 0, s, 1)

\* the asterisks of an escaped text that no backslash escapes
RECURSIVE BareAsterisks(_, _)
BareAsterisks(o, i) ==
    IF i > Len(o) THEN 0
    ELSE IF o[i] = BS THEN BareAsterisks(o, i + 2)
    ELSE IF o[i] = "*" THEN 1 + BareAsterisks(o, i + 1)
    ELSE BareAsterisks(o, i + 1)

\* s is one span **text** and nothing else
IsOneSpan(s) ==
    /\ Len(BoldSpans(s)) = 1
    /\ BoldSpans(s)[1].start = 0
    /\ BoldSpans(s)[1].end = Len(s)

\* C20 (bold handling): the bare asterisks of the returned text are the two
\* markers of each span **text** of the input and no others, and an input
\* that is one span is returned between its two markers.
BoldHandled ==
    Returned =>
        /\ BareAsterisks(text, 1) = 2 * Len(BoldSpans(input))
        /\ IsOneSpan(input) => text[1] = "*" /\ text[Len(text)] = "*"

\* the characters lines 272 to 277 escape
FinalChars == {"=", "|", "{", "}", ".", "!"}

\* C21 (final punctuation): in the returned text every "=", "|", "{", "}",
\* "." and "!" outside the fenced blocks follows a backslash, and, the input
\* holding no backslash, none inside a fenced block follows one.
FinalPunctuationEscaped ==
    Returned =>
        \A k \in 1..Len(text) :
            text[k] \in FinalChars =>
                IF InFence(text, k)
                THEN BS \in Chars(input) \/ text[k - 1] # BS
                ELSE k > 1 /\ text[k - 1] = BS

\* the line of position k of s holds no backtick before k or none after it,
\* so k lies in no inline code span
NoBacktickAround(s, k) ==
    \/ \A j \in 1..(k - 1) : s[j] = BQ => \E n \in j..k : s[n] = NL
    \/ \A j \in (k + 1)..Len(s) : s[j] = BQ => \E n \in k..j : s[n] = NL

\* the "+" at k of s lies in no code: in no fenced block, and its line holds
\* no backtick before it or none after it
PlusOutsideCode(s, k) == ~InFence(s, k) /\ NoBacktickAround(s, k)

\* C22 (plus escaping): when every "+" of the input lies outside fenced
\* blocks and outside inline code, every "+" of the returned text follows a
\* backslash; when every "+" of the input lies in a fenced block, none does.
PlusEscaped ==
    Returned =>
        /\ (\A k \in 1..Len(input) : input[k] = "+" => PlusOutsideCode(input, k))
              => \A k \in 1..Len(text) : text[k] = "+" => k > 1 /\ text[k - 1] = BS
        /\ (\A k \in 1..Len(input) : input[k] = "+" => InFence(input, k))
              => \A k \in 2..Len(text) : text[k] = "+" => text[k - 1] # BS

\* the "-" at k of s is a dash list marker: it starts a line after the first
\* and whitespace follows it
IsDashMarker(s, k) ==
    /\ k > 1 /\ s[k - 1] = NL
    /\ k < Len(s) /\ s[k + 1] \in Whitespace

\* C23 (minus handling): when the input holds no backslash and each of its
\* "-" is no list marker and lies in a fenced block or on a line with no
\* backtick before it or none after it, every "-" of the returned text
\* follows exactly one backslash.
MinusEscapedOnce ==
    (/\ Returned
     /\ BS \notin Chars(input)
     /\ \A k \in 1..Len(input) :
           input[k] = "-" =>
              /\ ~IsDashMarker(input, k)
              /\ InFence(input, k) \/ NoBacktickAround(input, k))
        => \A k \in 1..Len(text) :
              text[k] = "-" => /\ k > 1 /\ text[k - 1] = BS
                               /\ k > 2 => text[k - 2] # BS

\* the placeholder lines 174 to 177 put for a backslash before c
BracketSentinel(c) ==
    CASE c = "[" -> SentOpenBracket
      [] c = "]" -> SentCloseBracket
      [] c = "(" -> SentOpenParen
      [] c = ")" -> SentCloseParen

\* the pass that restores the placeholders of lines 174 to 177 (lines 218
\* to 221)
RestoreBracketsPass == 13

\* C24 (sentinel pairing): when the pass that restores the escaped brackets
\* is about to run, the text holds one placeholder of each of the four
\* classes for every escaped bracket of that class the first pass protected,
\* so no pass between them has consumed or broken one.
SentinelsPaired ==
    (pc = RestoreBracketsPass - 1 /\ ~raised /\ Chars(input) \cap {"@", "^"} = {})
        => \A c \in {"[", "]", "(", ")"} :
              Occurrences(text, BracketSentinel(c)) = Occurrences(input, <<BS, c>>)

\* line k of `lines` is a fence delimiter line, or an odd number of such
\* lines stands before it
FenceLine(lines, k) == StartsFence(lines[k])
InsideFence(lines, k) ==
    Cardinality({j \in 1..(k - 1) : FenceLine(lines, j)}) % 2 = 1

\* the backtick at k of line follows no backslash
RawAt(line, k) == line[k] = BQ /\ ~(k > 1 /\ line[k - 1] = BS)

RECURSIVE EscapeRaw(_, _)
\* line from k on, with a backslash put before each such backtick
EscapeRaw(line, k) ==
    IF k > Len(line) THEN <<>>
    ELSE (IF RawAt(line, k) THEN <<BS, BQ>> ELSE <<line[k]>>)
           \o EscapeRaw(line, k + 1)

\* line k is to be repaired
Uneven(lines, k) ==
    /\ ~FenceLine(lines, k)
    /\ ~InsideFence(lines, k)
    /\ Cardinality({j \in 1..Len(lines[k]) : RawAt(lines[k], j)}) % 2 = 1

\* `after` is `before` with the lines to repair repaired and the others kept
LinesRepaired(before, after) ==
    /\ Len(after) = Len(before)
    /\ \A k \in 1..Len(before) :
          after[k] = IF Uneven(before, k) THEN EscapeRaw(before[k], 1)
                     ELSE before[k]

\* C25 (fix_uneven_backticks): the call never raises, and what it returns has
\* the lines of its input, each unchanged unless it is outside a fence, is no
\* fence delimiter line and holds an odd number of backticks that follow no
\* backslash; such a line gets a backslash before each of those backticks
\* and before no other.
UnevenLinesRepaired ==
    /\ call = FixCall => ~raised
    /\ Fixed => LinesRepaired(split_lines(input, 1), split_lines(text, 1))

\* C25 witness: a line with one backtick is repaired, the same line inside a
\* fence is kept
RepairedOutsideKeptInside ==
    /\ Fixed
    /\ input = <<BQ, NL>> \o Fence \o <<NL, BQ>>
    /\ text = <<BS, BQ, NL>> \o Fence \o <<NL, BQ>>

\* the backticks of an escaped text that no backslash escapes
RECURSIVE BareBackticks(_, _)
BareBackticks(o, i) ==
    IF i > Len(o) THEN 0
    ELSE IF o[i] = BS THEN BareBackticks(o, i + 2)
    ELSE IF o[i] = BQ THEN 1 + BareBackticks(o, i + 1)
    ELSE BareBackticks(o, i + 1)

\* every line of s holds an even number of backticks, no two of them
\* adjacent (so s holds no fence) and none after a backslash
BalancedInline(s) ==
    /\ ~Contains(s, <<BQ, BQ>>)
    /\ ~Contains(s, <<BS, BQ>>)
    /\ \A a \in LineStarts(s) : Count(LineAt(s, a), BQ) % 2 = 0

\* C26 (inline code): when every line of the input holds balanced inline
\* code spans, the returned text holds all the backticks of the input and
\* none of them is escaped.
InlineCodeKept ==
    (Returned /\ BalancedInline(input))
        => /\ BareBackticks(text, 1) = Count(input, BQ)
           /\ Count(text, BQ) = Count(input, BQ)

\* C26 witness: a span holding an underscore has been returned with its two
\* backticks bare
InlineSpansReturned ==
    /\ Returned
    /\ BalancedInline(input)
    /\ Count(input, BQ) = 2
    /\ "_" \in Chars(input)
    /\ BareBackticks(text, 1) = 2

\* the line of s that starts at a begins with one or two digits, a dot
\* written as `dot`, and whitespace
NumberedLineAt(s, a, dot) ==
    \E n \in 1..2 :
        /\ \A j \in 0..(n - 1) : Is(s, a + j, Digits)
        /\ At(s, a + n, dot)
        /\ Is(s, a + n + Len(dot), Whitespace)

\* C27 (numbered lists): every line of the returned text after the first
\* that begins with one or two digits, the escaped dot and whitespace stands
\* after a blank line; a line numbered with three digits gets none.
NumberedLinesSpaced ==
    Returned =>
        /\ \A a \in LineStarts(text) :
              (a > 1 /\ NumberedLineAt(text, a, <<BS, ".">>))
                  => a > 2 /\ text[a - 2] = NL
        /\ input = ThreeDigits => ~Contains(text, <<NL, NL>>)

-----------------------------------------------------------------------------
(* generate_text_via_media: the upload, the wait loop, the two checks, the *)
(* model call, the history write and the reply.  Every call of Telegram,   *)
(* Gemini or Firebase returns or raises; an exception raised inside the    *)
(* try block is caught at line 425 and handed to handle_error.             *)

max_retries == 12
\* the values of media_file.state.name
FileStates == {"PROCESSING", "ACTIVE", "FAILED"}
\* what the body of the wait loop can do: send_chat_action raises,
\* genai.get_file raises, or both return
PollOutcomes == {"action_raises", "get_raises", "returns"}

InitMedia ==
    /\ NoEscape /\ NoAccess /\ NoLimit /\ NoShutdown
    /\ NoHistory /\ NoShell /\ NoMedia

\* lines 384-390: send_chat_action, genai.upload_file, retries = 0
UploadFile(ok, state) ==
    /\ media_pc = "idle"
    /\ IF ok
       THEN media_pc' = "wait" /\ media_state' = state
       ELSE media_pc' = "except" /\ UNCHANGED media_state
    /\ retries' = 0
    /\ UNCHANGED <<fetched, model_called, history_written, error_reported>>
    /\ UNCHANGED <<input, flag, text, pc, raised, call, first, sendVars,
                   accessVars, limitVars, offVars, historyVars, shellVars>>

\* the condition of the while of line 392
StillWaiting == media_state = "PROCESSING" /\ retries < max_retries

\* lines 393-396: one turn of the wait loop
Poll(outcome, state) ==
    /\ media_pc = "wait"
    /\ StillWaiting
    /\ fetched' = IF outcome = "action_raises" THEN fetched ELSE fetched + 1
    /\ IF outcome = "returns"
       THEN media_state' = state /\ retries' = retries + 1
            /\ UNCHANGED media_pc
       ELSE media_pc' = "except" /\ UNCHANGED <<media_state, retries>>
    /\ UNCHANGED <<model_called, history_written, error_reported>>
    /\ UNCHANGED <<input, flag, text, pc, raised, call, first, sendVars,
                   accessVars, limitVars, offVars, historyVars, shellVars>>

\* line 399
ProcessingFailed == media_state = "FAILED"
\* line 403 left out
NeverTimedOut == FALSE
\* line 403
TimedOut == media_state = "PROCESSING"

\* lines 392 and 399-404: the loop is left and the state is checked
CheckState ==
    /\ media_pc = "wait"
    /\ ~StillWaiting
    /\ media_pc' = IF ProcessingFailed \/ TimedOut THEN "except" ELSE "generate"
    /\ UNCHANGED <<media_state, retries, fetched, model_called,
                   history_written, error_reported>>
    /\ UNCHANGED <<input, flag, text, pc, raised, call, first, sendVars,
                   accessVars, limitVars, offVars, historyVars, shellVars>>

\* lines 407-410: chat_session.send_message([media_file, user_message])
GenerateContent(ok) ==
    /\ media_pc = "generate"
    /\ model_called' = TRUE
    /\ media_pc' = IF ok THEN "write" ELSE "except"
    /\ UNCHANGED <<media_state, retries, fetched, history_written,
                   error_reported>>
    /\ UNCHANGED <<input, flag, text, pc, raised, call, first, sendVars,
                   accessVars, limitVars, offVars, historyVars, shellVars>>

\* lines 413-414: DB.chat_history_add(chat_id, chat_session.history)
WriteHistory(ok) ==
    /\ media_pc = "write"
    /\ history_written' = TRUE
    /\ media_pc' = IF ok THEN "reply" ELSE "except"
    /\ UNCHANGED <<media_state, retries, fetched, model_called,
                   error_reported>>
    /\ UNCHANGED <<input, flag, text, pc, raised, call, first, sendVars,
                   accessVars, limitVars, offVars, historyVars, shellVars>>

\* lines 417-423: the response, or the usage-limit notice, is sent
SendResponse(ok) ==
    /\ media_pc = "reply"
    /\ media_pc' = IF ok THEN "done" ELSE "except"
    /\ UNCHANGED <<media_state, retries, fetched, model_called,
                   history_written, error_reported>>
    /\ UNCHANGED <<input, flag, text, pc, raised, call, first, sendVars,
                   accessVars, limitVars, offVars, historyVars, shellVars>>

\* lines 425-427: except Exception: handle_error(update, ...), which
\* swallows the failure of its own reply_text
ReportError ==
    /\ media_pc = "except"
    /\ error_reported' = TRUE
    /\ media_pc' = "done"
    /\ UNCHANGED <<media_state, retries, fetched, model_called,
                   history_written>>
    /\ UNCHANGED <<input, flag, text, pc, raised, call, first, sendVars,
                   accessVars, limitVars, offVars, historyVars, shellVars>>

NextMedia ==
    \/ \E ok \in BOOLEAN, state \in FileStates : UploadFile(ok, state)
    \/ \E outcome \in PollOutcomes, state \in FileStates : Poll(outcome, state)
    \/ CheckState
    \/ \E ok \in BOOLEAN : GenerateContent(ok)
    \/ \E ok \in BOOLEAN : WriteHistory(ok)
    \/ \E ok \in BOOLEAN : SendResponse(ok)
    \/ ReportError

\* the coroutine, once called, runs on: each of its awaits and blocking
\* calls returns or raises
SpecMedia == InitMedia /\ [][NextMedia]_vars /\ WF_vars(NextMedia)

\* C28: generate_text_via_media calls genai.get_file at most 12 times, and
\* only while the state is PROCESSING; the call always ends; the model is
\* called and the history written only when the state after the wait loop
\* is neither FAILED nor PROCESSING; when it is FAILED or PROCESSING the
\* call ends with handle_error called and without model call or history
\* write.
PollingBounded ==
    /\ fetched <= max_retries
    /\ retries <= max_retries
    /\ (model_called \/ history_written)
           => media_state \notin {"FAILED", "PROCESSING", "NONE"}
    /\ history_written => model_called
    /\ (media_pc = "done" /\ media_state \in {"FAILED", "PROCESSING"})
           => error_reported /\ ~model_called /\ ~history_written
MediaPolling == []PollingBounded /\ <>(media_pc = "done")
\* the wait loop ran its twelve turns and the call ended with the error
\* reported
PolledTwelveTimes ==
    /\ media_pc = "done" /\ fetched = max_retries /\ retries = max_retries
    /\ media_state = "PROCESSING" /\ error_reported /\ ~model_called
\* the file became ACTIVE after some turns and the history was written
AnsweredAfterWait ==
    /\ media_pc = "done" /\ retries > 0 /\ media_state = "ACTIVE"
    /\ model_called /\ history_written /\ ~error_reported
-----------------------------------------------------------------------------
(* The history of one chat: generate_response, the update_history threads  *)
(* it starts, and clear_history.  A history is modelled by the number of   *)
(* exchanges it holds.  The handlers run one after the other on the event  *)
(* loop; an update_history thread runs whenever the interpreter schedules  *)
(* it.  db_lock is taken and released as the code does.                    *)

\* the exchanges a history can hold
MaxHistory == 2
\* the ChatSession objects made for the chat
MaxSessions == 3

historyRest ==
    <<textVars, accessVars, limitVars, offVars, mediaVars, shellVars>>

\* the process starts with no session in memory and Firebase holding what
\* earlier runs left
InitHistory ==
    /\ NoEscape /\ NoAccess /\ NoLimit /\ NoShutdown /\ NoMedia /\ NoShell
    /\ chat_sessions = <<>>
    /\ chat_histories = 0
    /\ stored_history \in 0..1
    /\ update_threads = [t \in ThreadIds |-> 0]
    /\ db_lock = "free"
    /\ clear_pc = "idle"
    /\ cleared = FALSE

\* get_chat_history(chat_id): the session chat_histories holds, or a new
\* one started with the history read from Firebase (with [] when the read
\* fails or the user is new)
SessionsAfterGet(read_ok) ==
    IF chat_histories # 0 THEN chat_sessions
    ELSE Append(chat_sessions, IF read_ok THEN stored_history ELSE 0)
SessionAfterGet ==
    IF chat_histories # 0 THEN chat_histories ELSE Len(chat_sessions) + 1

\* generate_response(chat_id, input_text), called by a message handler:
\* get_chat_history, chat_session.send_message, and, when the response has
\* a text, the start of an update_history thread
generate_response(read_ok, sent_ok, has_text, t) ==
    /\ clear_pc = "idle"
    /\ chat_histories # 0 \/ Len(chat_sessions) < MaxSessions
    /\ update_threads[t] = 0
    /\ LET sessions == SessionsAfterGet(read_ok)
           session == SessionAfterGet
       IN /\ sessions[session] < MaxHistory
          /\ chat_histories' = session
          /\ chat_sessions' =
                 IF sent_ok
                 THEN [sessions EXCEPT ![session] = sessions[session] + 1]
                 ELSE sessions
          /\ update_threads' =
                 IF sent_ok /\ has_text
                 THEN [update_threads EXCEPT ![t] = session]
                 ELSE update_threads
    /\ cleared' = FALSE
    /\ UNCHANGED <<stored_history, db_lock, clear_pc, historyRest>>

\* update_history, line 234: with db_lock
AcquireLock(t) ==
    /\ update_threads[t] # 0
    /\ db_lock = "free"
    /\ db_lock' = t
    /\ UNCHANGED <<chat_sessions, chat_histories, stored_history,
                   update_threads, clear_pc, cleared, historyRest>>

\* update_history, lines 235-237: DB.chat_history_add(chat_id,
\* chat_session.history) with the session the thread was started for; a
\* failure is logged; the lock is released and the thread ends
update_history(t, ok) ==
    /\ db_lock = t
    /\ stored_history' =
           IF ok THEN chat_sessions[update_threads[t]] ELSE stored_history
    /\ update_threads' = [update_threads EXCEPT ![t] = 0]
    /\ db_lock' = "free"
    /\ UNCHANGED <<chat_sessions, chat_histories, clear_pc, cleared,
                   historyRest>>

\* clear_history, lines 581-598: the permission test and the reply
\* 'Clearing chat history...'
StartClear(is_authorized) ==
    /\ clear_pc = "idle"
    /\ Len(chat_sessions) < MaxSessions
    /\ IF is_authorized
       THEN clear_pc' = "memory" /\ cleared' = FALSE
       ELSE UNCHANGED <<clear_pc, cleared>>
    /\ UNCHANGED <<chat_sessions, chat_histories, stored_history,
                   update_threads, db_lock, historyRest>>

\* clear_history, line 601: chat_histories[str(chat_id)] =
\* model.start_chat(history=[])
ClearMemory ==
    /\ clear_pc = "memory"
    /\ chat_sessions' = Append(chat_sessions, 0)
    /\ chat_histories' = Len(chat_sessions) + 1
    /\ clear_pc' = "lock"
    /\ UNCHANGED <<stored_history, update_threads, db_lock, cleared,
                   historyRest>>

\* clear_history, line 604: with db_lock
ClearAcquire ==
    /\ clear_pc = "lock"
    /\ db_lock = "free"
    /\ db_lock' = "clear_history"
    /\ clear_pc' = "write"
    /\ UNCHANGED <<chat_sessions, chat_histories, stored_history,
                   update_threads, cleared, historyRest>>

\* clear_history, line 605: DB.chat_history_add(chat_id, []); when it
\* raises, lines 611-613 report the error and the command ends
ClearDatabase(ok) ==
    /\ clear_pc = "write"
    /\ db_lock' = "free"
    /\ IF ok
       THEN stored_history' = 0 /\ clear_pc' = "confirm"
       ELSE clear_pc' = "idle" /\ UNCHANGED stored_history
    /\ UNCHANGED <<chat_sessions, chat_histories, update_threads, cleared,
                   historyRest>>

\* clear_history, lines 608-609: the success is confirmed and the command
\* ends
ConfirmClear ==
    /\ clear_pc = "confirm"
    /\ clear_pc' = "idle"
    /\ cleared' = TRUE
    /\ UNCHANGED <<chat_sessions, chat_histories, stored_history,
                   update_threads, db_lock, historyRest>>

NextHistory ==
    \/ \E read_ok, sent_ok, has_text \in BOOLEAN, t \in ThreadIds :
           generate_response(read_ok, sent_ok, has_text, t)
    \/ \E t \in ThreadIds : AcquireLock(t)
    \/ \E t \in ThreadIds, ok \in BOOLEAN : update_history(t, ok)
    \/ \E is_authorized \in BOOLEAN : StartClear(is_authorized)
    \/ ClearMemory
    \/ ClearAcquire
    \/ \E ok \in BOOLEAN : ClearDatabase(ok)
    \/ ConfirmClear

SpecHistory == InitHistory /\ [][NextHistory]_vars

\* C29: from the completion of a clear_history of the chat until the next
\* message of the chat is answered, the history Firebase holds for the chat
\* is empty, whatever the update_history threads started before do.
ClearedStaysEmpty == cleared => stored_history = 0
-----------------------------------------------------------------------------
(* The /shell commands of the owner: shell, process_kill_callback and      *)
(* kill_all_processes.  A process id is made of the user and the message,  *)
(* so each id is used by one /shell command.  A subprocess ends on its own *)
(* at any time, or when it is killed.                                      *)

shellRest ==
    <<textVars, accessVars, limitVars, offVars, mediaVars, historyVars>>

InitShell ==
    /\ NoEscape /\ NoAccess /\ NoLimit /\ NoShutdown /\ NoMedia /\ NoHistory
    /\ NoShell

\* shell, lines 47-64: the subprocess is created and stored in
\* running_processes; when its creation raises, lines 97-100 report the
\* error
shell(p, created) ==
    /\ shell_pc[p] = "idle"
    /\ IF created
       THEN /\ processes' = [processes EXCEPT ![p] = "running"]
            /\ running_processes' = running_processes \cup {p}
            /\ shell_pc' = [shell_pc EXCEPT ![p] = "waiting"]
       ELSE /\ shell_pc' = [shell_pc EXCEPT ![p] = "ended"]
            /\ UNCHANGED <<processes, running_processes>>
    /\ UNCHANGED <<offered, kill_reply, shellRest>>

\* the subprocess ends on its own
ProcessExits(p) ==
    /\ processes[p] = "running"
    /\ processes' = [processes EXCEPT ![p] = "finished"]
    /\ UNCHANGED <<running_processes, shell_pc, offered, kill_reply,
                   shellRest>>

\* the finally clause of shell, lines 102-105
CleanUp(p) == running_processes \ {p}

\* shell, lines 67-84 and 102-105: process.communicate() returned within
\* the 60 seconds, the process having ended or been killed
CommunicateReturns(p) ==
    /\ shell_pc[p] = "waiting"
    /\ processes[p] \in {"finished", "killed"}
    /\ running_processes' = CleanUp(p)
    /\ shell_pc' = [shell_pc EXCEPT ![p] = "ended"]
    /\ UNCHANGED <<processes, offered, kill_reply, shellRest>>

\* shell, lines 86-96 and 102-105: asyncio.TimeoutError after 60 seconds,
\* which cancels communicate() and leaves the subprocess running; the
\* message gets the 'Kill Process' button unless edit_text raises; return
\* runs the finally clause
CommunicateTimesOut(p, edited) ==
    /\ shell_pc[p] = "waiting"
    /\ processes[p] = "running"
    /\ offered' = IF edited THEN offered \cup {p} ELSE offered
    /\ running_processes' = CleanUp(p)
    /\ shell_pc' = [shell_pc EXCEPT ![p] = "ended"]
    /\ UNCHANGED <<processes, kill_reply, shellRest>>

\* process_kill_callback with data "kill_" + p, lines 357-388; the button
\* was shown.  process.kill() on a subprocess that has ended raises
\* ProcessLookupError or does nothing (kill_raises).
process_kill_callback(p, kill_raises) ==
    /\ p \in offered
    /\ IF p \in running_processes
       THEN IF processes[p] # "running" /\ kill_raises
            THEN /\ kill_reply' = [kill_reply EXCEPT ![p] = "error"]
                 /\ UNCHANGED <<processes, running_processes>>
            ELSE /\ processes' =
                        [processes EXCEPT
                            ![p] = IF @ = "running" THEN "killed" ELSE @]
                 /\ running_processes' = running_processes \ {p}
                 /\ kill_reply' = [kill_reply EXCEPT ![p] = "terminated"]
       ELSE /\ kill_reply' = [kill_reply EXCEPT ![p] = "not_found"]
            /\ UNCHANGED <<processes, running_processes>>
    /\ UNCHANGED <<shell_pc, offered, shellRest>>

\* kill_all_processes (/shell_kill), lines 236-254: every stored process
\* is killed and deleted; one whose kill() raises stays stored
kill_all_processes(kill_raises) ==
    /\ LET stay == {p \in running_processes :
                       processes[p] # "running" /\ kill_raises}
       IN /\ processes' =
                 [p \in ProcessIds |->
                     IF p \in running_processes /\ processes[p] = "running"
                     THEN "killed" ELSE processes[p]]
          /\ running_processes' = stay
    /\ UNCHANGED <<shell_pc, offered, kill_reply, shellRest>>

NextShell ==
    \/ \E p \in ProcessIds, created \in BOOLEAN : shell(p, created)
    \/ \E p \in ProcessIds : ProcessExits(p)
    \/ \E p \in ProcessIds : CommunicateReturns(p)
    \/ \E p \in ProcessIds, edited \in BOOLEAN : CommunicateTimesOut(p, edited)
    \/ \E p \in ProcessIds, kill_raises \in BOOLEAN :
           process_kill_callback(p, kill_raises)
    \/ \E kill_raises \in BOOLEAN : kill_all_processes(kill_raises)

SpecShell == InitShell /\ [][NextShell]_vars

\* C30: a subprocess of /shell is stored in running_processes for as long
\* as it runs, also after the 60 seconds when the 'Kill Process' button is
\* shown, so that process_kill_callback for its id never answers that it
\* was not found while it runs.
RunningStaysRegistered ==
    \A p \in ProcessIds :
        /\ processes[p] = "running" => p \in running_processes
        /\ kill_reply[p] = "not_found" => processes[p] # "running"
====
